---- MODULE Spec2Model ----
(***************************************************************************)
(* Model of the translation pipeline of EnglishEnvironmentExtension:       *)
(* TextNormalizer, HashUtils, NodeFingerprintStore, TranslationCache,      *)
(* TextPlanner, DomReplacer and the TextProcessor cycle.                   *)
(*                                                                         *)
(* A text is the sequence of its UTF-16 code units.  A hash is the         *)
(* sequence of its 8 hexadecimal digits (each 0..15).                      *)
(***************************************************************************)
EXTENDS Integers, Sequences, FiniteSets, TLC

(***************************************************************************)
(* Texts of the model.                                                     *)
(***************************************************************************)
\* "测试"
TextCeshi == <<27979, 35797>>
\* "测试 " (trailing space; normalizes to "测试")
TextCeshiSp == <<27979, 35797, 32>>
\* "要同下" and "小没了": two texts with the same FNV-1a hash e41a9651
TextYao == <<35201, 21516, 19979>>
TextXiao == <<23567, 27809, 20102>>
\* "test": a translation without Chinese characters
ResTest == <<116, 101, 115, 116>>
\* "测t": a translation that still contains a Chinese character
ResMixed == <<27979, 116>>
\* "": no usable rewrite
ResEmpty == <<>>

\* texts the host page puts into text nodes
HostTexts == {TextCeshi, TextCeshiSp, TextYao, TextXiao}
\* the texts the page gives to each of its text nodes
HostTextsOf(n) == IF n = 1 THEN {TextCeshiSp, TextYao} ELSE {TextCeshi, TextXiao}
\* the text of each node when the content script is injected
InitialText(n) == IF n = 1 THEN TextCeshiSp ELSE TextXiao
\* proficiency levels: "A1", "B2", "B2:x" and ""
LevelA1 == <<65, 49>>
LevelB2 == <<66, 50>>
LevelB2x == <<66, 50, 58, 120>>
NoLevel == <<>>
\* strings the rewriting service may return
ApiTexts == {ResEmpty, ResTest, ResMixed}
AllTexts == HostTexts \cup ApiTexts

(***************************************************************************)
(* TextNormalizer.ts                                                       *)
(***************************************************************************)
DEFAULT_CONFIG ==
  [trim |-> TRUE, collapseWhitespace |-> TRUE, removeZeroWidth |-> TRUE,
   convertFullWidth |-> TRUE, removeLineBreaks |-> FALSE]

\* /[​-‍﻿]/
ZERO_WIDTH_REGEX(c) == c \in 8203..8205 \/ c = 65279

FULL_WIDTH_SPACE == 12288

\* the characters matched by \s and stripped by String.prototype.trim
IsWhitespace(c) ==
  \/ c \in {9, 10, 11, 12, 13, 32, 160, 5760, 8232, 8233, 8239, 8287, 12288, 65279}
  \/ c \in 8192..8202

IsLineBreak(c) == c \in {10, 13}

\* replace(/<class>+/g, ' '): every maximal run of matching characters becomes one space
RECURSIVE CollapseRuns(_, _, _)
CollapseRuns(s, lineBreaksOnly, inRun) ==
  IF s = <<>> THEN <<>>
  ELSE LET c == Head(s)
           m == IF lineBreaksOnly THEN IsLineBreak(c) ELSE IsWhitespace(c)
       IN IF m
            THEN (IF inRun THEN <<>> ELSE <<32>>) \o CollapseRuns(Tail(s), lineBreaksOnly, TRUE)
            ELSE <<c>> \o CollapseRuns(Tail(s), lineBreaksOnly, FALSE)

RECURSIVE TrimStart(_)
TrimStart(s) ==
  IF s # <<>> /\ IsWhitespace(Head(s)) THEN TrimStart(Tail(s)) ELSE s

RECURSIVE TrimEnd(_)
TrimEnd(s) ==
  IF s # <<>> /\ IsWhitespace(s[Len(s)]) THEN TrimEnd(SubSeq(s, 1, Len(s) - 1)) ELSE s

Trim(s) == TrimEnd(TrimStart(s))

NotZeroWidth(c) == ~ZERO_WIDTH_REGEX(c)

\* normalizeText applying the removal of zero-width characters last
normalizeTextZeroWidthLast(text, finalConfig) ==
  LET s2 == IF finalConfig.convertFullWidth
              THEN [i \in 1..Len(text) |-> IF text[i] = FULL_WIDTH_SPACE THEN 32 ELSE text[i]]
              ELSE text
      s3 == IF finalConfig.removeLineBreaks THEN CollapseRuns(s2, TRUE, FALSE) ELSE s2
      s4 == IF finalConfig.collapseWhitespace THEN CollapseRuns(s3, FALSE, FALSE) ELSE s3
      s5 == IF finalConfig.trim THEN Trim(s4) ELSE s4
  IN IF finalConfig.removeZeroWidth THEN SelectSeq(s5, NotZeroWidth) ELSE s5

normalizeTextWith(text, finalConfig) ==
  LET s1 == IF finalConfig.removeZeroWidth THEN SelectSeq(text, NotZeroWidth) ELSE text
      s2 == IF finalConfig.convertFullWidth
              THEN [i \in 1..Len(s1) |-> IF s1[i] = FULL_WIDTH_SPACE THEN 32 ELSE s1[i]]
              ELSE s1
      s3 == IF finalConfig.removeLineBreaks THEN CollapseRuns(s2, TRUE, FALSE) ELSE s2
      s4 == IF finalConfig.collapseWhitespace THEN CollapseRuns(s3, FALSE, FALSE) ELSE s3
      s5 == IF finalConfig.trim THEN Trim(s4) ELSE s4
  IN s5

normalizeText(text) == normalizeTextWith(text, DEFAULT_CONFIG)

HasAdjacentWhitespace(text) ==
  \E i \in 1..(Len(text) - 1) : IsWhitespace(text[i]) /\ IsWhitespace(text[i + 1])

\* ZERO_WIDTH_REGEX.test(text): the regex has the g flag, so the search starts at
\* its lastIndex; a match leaves lastIndex behind the match, a failure resets it
RegexTest(text, from) ==
  LET found == {i \in (from + 1)..Len(text) : ZERO_WIDTH_REGEX(text[i])}
  IN IF found = {} THEN [result |-> FALSE, lastIndex |-> 0]
     ELSE [result |-> TRUE,
           lastIndex |-> CHOOSE i \in found : \A k \in found : i <= k]

\* needsNormalization called when ZERO_WIDTH_REGEX.lastIndex is from: its result
\* and the lastIndex it leaves
needsNormalizationAt(text, from) ==
  IF text # Trim(text) THEN [result |-> TRUE, lastIndex |-> from]
  ELSE LET zw == RegexTest(text, from)
       IN IF zw.result THEN zw
          ELSE [result |-> \/ \E i \in 1..Len(text) : text[i] = FULL_WIDTH_SPACE
                           \/ HasAdjacentWhitespace(text)
                           \/ \E i \in 1..Len(text) : IsLineBreak(text[i]),
                lastIndex |-> 0]

\* texts.filter(needsNormalization).length: the count and the lastIndex left
RECURSIVE CountNeeding(_, _, _)
CountNeeding(texts, from, count) ==
  IF texts = <<>> THEN [count |-> count, lastIndex |-> from]
  ELSE LET r == needsNormalizationAt(Head(texts), from)
       IN CountNeeding(Tail(texts), r.lastIndex, IF r.result THEN count + 1 ELSE count)

\* getNormalizationStats(texts) called when ZERO_WIDTH_REGEX.lastIndex is from;
\* Math.round rounds halves up
getNormalizationStatsAt(texts, from) ==
  LET total == Len(texts)
      counted == CountNeeding(texts, from, 0)
      needsNorm == counted.count
  IN [total |-> total, needsNormalization |-> needsNorm,
      percentage |-> IF total > 0 THEN (200 * needsNorm + total) \div (2 * total) ELSE 0,
      lastIndex |-> counted.lastIndex]

\* needsNormalization on a regex whose lastIndex is 0 (no text of the pipeline
\* holds a zero-width character, so there the shared regex never advances)
needsNormalization(text) == needsNormalizationAt(text, 0).result

(***************************************************************************)
(* HashUtils.ts: 32-bit FNV-1a, kept as two 16-bit halves so that every    *)
(* intermediate product stays below 2^31.                                  *)
(***************************************************************************)
FNV_PRIME_LOW == 403          \* 0x01000193 = 2^24 + 0x193
FNV_OFFSET_BASIS == [hi |-> 33052, lo |-> 40389]   \* 0x811c 0x9dc5

RECURSIVE Xor(_, _)
Xor(a, b) ==
  IF a = 0 THEN b
  ELSE IF b = 0 THEN a
  ELSE (((a % 2) + (b % 2)) % 2) + 2 * Xor(a \div 2, b \div 2)

\* Math.imul(hash, 0x01000193) modulo 2^32
ImulPrime(h) ==
  LET loProd == h.lo * FNV_PRIME_LOW
      hiProd == (h.hi * FNV_PRIME_LOW) + (loProd \div 65536) + ((h.lo % 256) * 256)
  IN [hi |-> hiProd % 65536, lo |-> loProd % 65536]

\* the loop multiplying before the XOR (FNV-1 instead of FNV-1a)
RECURSIVE FnvLoopMultiplyFirst(_, _)
FnvLoopMultiplyFirst(h, text) ==
  IF text = <<>> THEN h
  ELSE LET p == ImulPrime(h)
       IN FnvLoopMultiplyFirst([hi |-> p.hi, lo |-> Xor(p.lo, Head(text))], Tail(text))

RECURSIVE FnvLoop(_, _)
FnvLoop(h, text) ==
  IF text = <<>> THEN h
  ELSE FnvLoop(ImulPrime([hi |-> h.hi, lo |-> Xor(h.lo, Head(text))]), Tail(text))

\* (hash >>> 0).toString(16).padStart(8, '0') as the sequence of its hex digits
ToHex8(h) ==
  << (h.hi \div 4096) % 16, (h.hi \div 256) % 16, (h.hi \div 16) % 16, h.hi % 16,
     (h.lo \div 4096) % 16, (h.lo \div 256) % 16, (h.lo \div 16) % 16, h.lo % 16 >>

hashText(text) == ToHex8(FnvLoop(FNV_OFFSET_BASIS, text))

generateCacheKey(textHash, userLevel) == <<textHash, userLevel>>

\* a hexadecimal digit as the code unit of its character, '0'..'9' and 'a'..'f'
HexChar(d) == IF d < 10 THEN 48 + d ELSE 87 + d

\* the hash as the string the fingerprint is built from
HexString(textHash) == [i \in 1..Len(textHash) |-> HexChar(textHash[i])]

\* the mode as a string: "original" or "translated"
ModeString(mode) ==
  IF mode = "original" THEN <<111, 114, 105, 103, 105, 110, 97, 108>>
  ELSE <<116, 114, 97, 110, 115, 108, 97, 116, 101, 100>>

\* `${textHash}:${userLevel}:${mode}`
generateNodeFingerprint(textHash, userLevel, mode) ==
  HexString(textHash) \o <<58>> \o userLevel \o <<58>> \o ModeString(mode)

\* domHelpers.isChineseText: /[一-龥]/
isChineseText(text) == \E i \in 1..Len(text) : text[i] \in 19968..40869

(***************************************************************************)
(* NodeFingerprintStore.ts.  fingerprintMap is a function over the nodes;  *)
(* a node without an association maps to NoInfo.  The timestamp field of   *)
(* NodeFingerprintInfo and the hit/miss counters are never read by the     *)
(* pipeline and are left out.                                              *)
(***************************************************************************)
NoInfo ==
  [has |-> FALSE, fingerprint |-> <<>>, textHash |-> <<>>, userLevel |-> NoLevel,
   mode |-> "", normalizedText |-> <<>>]

\* markAsProcessed that keeps the association an entity already has
markAsProcessedFirstWins(fpMap, texts, textNode, userLevel, mode) ==
  LET textHash == hashText(normalizeText(texts[textNode]))
      info == [has |-> TRUE,
               fingerprint |-> generateNodeFingerprint(textHash, userLevel, mode),
               textHash |-> textHash, userLevel |-> userLevel, mode |-> mode,
               normalizedText |-> normalizeText(texts[textNode])]
  IN IF fpMap[textNode].has THEN fpMap ELSE [fpMap EXCEPT ![textNode] = info]

markAsProcessed(fpMap, texts, textNode, userLevel, mode) ==
  LET rawText == texts[textNode]
      normalizedText == normalizeText(rawText)
      textHash == hashText(normalizedText)
      fingerprint == generateNodeFingerprint(textHash, userLevel, mode)
      info == [has |-> TRUE, fingerprint |-> fingerprint, textHash |-> textHash,
               userLevel |-> userLevel, mode |-> mode, normalizedText |-> normalizedText]
  IN [fpMap EXCEPT ![textNode] = info]

\* isProcessed comparing the hash and the level, not the mode
isProcessedAnyMode(fpMap, texts, textNode, userLevel, mode) ==
  LET stored == fpMap[textNode]
  IN /\ stored.has
     /\ stored.textHash = hashText(normalizeText(texts[textNode]))
     /\ stored.userLevel = userLevel

isProcessed(fpMap, texts, textNode, userLevel, mode) ==
  LET stored == fpMap[textNode]
  IN IF ~stored.has THEN FALSE
     ELSE LET rawText == texts[textNode]
              normalizedText == normalizeText(rawText)
              textHash == hashText(normalizedText)
              currentFingerprint == generateNodeFingerprint(textHash, userLevel, mode)
          IN stored.fingerprint = currentFingerprint

filterUnprocessed(fpMap, texts, textNodes, userLevel, mode) ==
  SelectSeq(textNodes, LAMBDA node : ~isProcessed(fpMap, texts, node, userLevel, mode))

\* NodeFingerprintStore.clear
clearFingerprints(nodes) == [n \in nodes |-> NoInfo]

(***************************************************************************)
(* TranslationCache.ts.  The cache is the sequence of its CacheItems in    *)
(* Map insertion order; a key is the string generateKey builds.            *)
(***************************************************************************)
\* `${text}-${userLevel}`
generateKey(text, userLevel) == text \o <<45>> \o userLevel

\* position of a key in the Map, 0 when absent
CacheIndex(cache, key) ==
  IF \E i \in 1..Len(cache) : cache[i].key = key
    THEN CHOOSE i \in 1..Len(cache) : cache[i].key = key
    ELSE 0

\* cacheGet that leaves an empty placeholder entry behind on a miss
cacheGetInserting(cache, text, userLevel, now) ==
  LET key == generateKey(text, userLevel)
      i == CacheIndex(cache, key)
  IN IF i # 0
       THEN [found |-> TRUE, value |-> cache[i].value,
             cache |-> [cache EXCEPT ![i] = [@ EXCEPT !.accessCount = @ + 1,
                                                      !.timestamp = now]]]
       ELSE [found |-> FALSE, value |-> <<>>,
             cache |-> Append(cache, [key |-> key, value |-> <<>>, timestamp |-> now,
                                      accessCount |-> 1])]

\* get that removes the entry it returns
cacheGetDeleting(cache, text, userLevel, now) ==
  LET key == generateKey(text, userLevel)
      i == CacheIndex(cache, key)
  IN IF i # 0
       THEN [found |-> TRUE, value |-> cache[i].value,
             cache |-> SubSeq(cache, 1, i - 1) \o SubSeq(cache, i + 1, Len(cache))]
       ELSE [found |-> FALSE, value |-> <<>>, cache |-> cache]

\* get that counts the access and leaves the timestamp as it is
cacheGetNoRefresh(cache, text, userLevel, now) ==
  LET key == generateKey(text, userLevel)
      i == CacheIndex(cache, key)
  IN IF i # 0
       THEN [found |-> TRUE, value |-> cache[i].value,
             cache |-> [cache EXCEPT ![i] = [@ EXCEPT !.accessCount = @ + 1]]]
       ELSE [found |-> FALSE, value |-> <<>>, cache |-> cache]

\* get: [found, value, cache]; a hit bumps accessCount and refreshes timestamp
cacheGet(cache, text, userLevel, now) ==
  LET key == generateKey(text, userLevel)
      i == CacheIndex(cache, key)
  IN IF i # 0
       THEN [found |-> TRUE, value |-> cache[i].value,
             cache |-> [cache EXCEPT ![i] = [@ EXCEPT !.accessCount = @ + 1,
                                                      !.timestamp = now]]]
       ELSE [found |-> FALSE, value |-> <<>>, cache |-> cache]

\* item i scores strictly below item j: accessCount / (now - timestamp + 1)
ScoreLess(cache, i, j, now) ==
  cache[i].accessCount * (now - cache[j].timestamp + 1)
    < cache[j].accessCount * (now - cache[i].timestamp + 1)

\* item i, scored when Date.now() reads ti, scores strictly below item j, scored
\* when it reads tj
ScoreLessAt(cache, i, ti, j, tj) ==
  cache[i].accessCount * (tj - cache[j].timestamp + 1)
    < cache[j].accessCount * (ti - cache[i].timestamp + 1)

\* evictLeastUsed, whose loop reads Date.now() anew for every item: times[i] is
\* the reading for item i.  It deletes the first item, in Map order, that no
\* other item scores strictly below.
evictLeastUsedAt(cache, times) ==
  IF cache = <<>> THEN cache
  ELSE LET victim == CHOOSE i \in 1..Len(cache) :
                        /\ \A j \in 1..Len(cache) :
                             ~ScoreLessAt(cache, j, times[j], i, times[i])
                        /\ \A j \in 1..(i - 1) :
                             ScoreLessAt(cache, i, times[i], j, times[j])
       IN [k \in 1..(Len(cache) - 1) |-> IF k < victim THEN cache[k] ELSE cache[k + 1]]

\* evictLeastUsed while the clock stands still
evictLeastUsed(cache, now) == evictLeastUsedAt(cache, [i \in 1..Len(cache) |-> now])

\* set, with the clock readings of the eviction loop and the reading stamp that
\* becomes the timestamp of the item
cacheSetAt(cache, text, userLevel, results, times, stamp, maxSize) ==
  LET key == generateKey(text, userLevel)
      kept == IF Len(cache) >= maxSize THEN evictLeastUsedAt(cache, times) ELSE cache
      item == [key |-> key, value |-> results, timestamp |-> stamp, accessCount |-> 1]
      i == CacheIndex(kept, key)
  IN IF i # 0 THEN [kept EXCEPT ![i] = item] ELSE Append(kept, item)

\* set while the clock stands still
cacheSet(cache, text, userLevel, results, now, maxSize) ==
  cacheSetAt(cache, text, userLevel, results, [i \in 1..Len(cache) |-> now], now, maxSize)

\* getByHash / setByHash: the content key of get / set is the text hash
getByHash(cache, textHash, userLevel, now) ==
  cacheGet(cache, HexString(textHash), userLevel, now)

setByHash(cache, textHash, userLevel, translation, now, maxSize) ==
  cacheSet(cache, HexString(textHash), userLevel, translation, now, maxSize)

(***************************************************************************)
(* TextPlanner (PROJECT.md).  A TextNodeData is [node, text]; a            *)
(* TextCandidate is [node, rawText, normalizedText, textHash, cacheKey].   *)
(* A Map is the sequence of its entries in insertion order.                *)
(***************************************************************************)
\* nodeDataMap.get(node): Map.set keeps the last data of a node
NodeDataOf(textNodes, node) ==
  LET last == CHOOSE i \in 1..Len(textNodes) :
                 /\ textNodes[i].node = node
                 /\ \A j \in (i + 1)..Len(textNodes) : textNodes[j].node # node
  IN textNodes[last]

\* index of a hash in a Map keyed by hash, 0 when absent
HashIndex(map, hash) ==
  IF \E i \in 1..Len(map) : map[i].hash = hash
    THEN CHOOSE i \in 1..Len(map) : map[i].hash = hash
    ELSE 0

RECURSIVE batchDeduplicateLoop(_, _, _)
batchDeduplicateLoop(candidates, uniqueTexts, textHashMap) ==
  IF candidates = <<>> THEN [uniqueTexts |-> uniqueTexts, textHashMap |-> textHashMap]
  ELSE LET candidate == Head(candidates)
           hash == candidate.textHash
           i == HashIndex(textHashMap, hash)
       IN IF i = 0
            THEN batchDeduplicateLoop(Tail(candidates),
                   Append(uniqueTexts, candidate.normalizedText),
                   Append(textHashMap, [hash |-> hash, candidates |-> <<candidate>>]))
            ELSE batchDeduplicateLoop(Tail(candidates), uniqueTexts,
                   [textHashMap EXCEPT ![i].candidates = Append(@, candidate)])

\* batchDeduplicate whose seen-set holds normalized texts instead of hashes
batchDeduplicateByText(candidates) ==
  LET firstText(i) ==
        \A j \in 1..(i - 1) : candidates[j].normalizedText # candidates[i].normalizedText
      firsts == SelectSeq([i \in 1..Len(candidates) |-> i], firstText)
  IN [uniqueTexts |-> [k \in 1..Len(firsts) |-> candidates[firsts[k]].normalizedText],
      textHashMap |-> batchDeduplicateLoop(candidates, <<>>, <<>>).textHashMap]

\* batchDeduplicate without the seenHashes check
batchDeduplicateNoSeen(candidates) ==
  [uniqueTexts |-> [i \in 1..Len(candidates) |-> candidates[i].normalizedText],
   textHashMap |-> batchDeduplicateLoop(candidates, <<>>, <<>>).textHashMap]

batchDeduplicate(candidates) == batchDeduplicateLoop(candidates, <<>>, <<>>)

\* planPush with the else lost: a hit is pushed to both lists
planPushBoth(acc, candidate, cached) ==
  IF cached.found /\ Len(cached.value) > 0
    THEN [acc EXCEPT !.toApplyFromCache =
                       Append(@, [candidate |-> candidate, translated |-> cached.value]),
                     !.toSend = Append(@, candidate)]
    ELSE [acc EXCEPT !.toSend = Append(@, candidate)]

\* planPush that ignores the cache
planPushAlwaysSend(acc, candidate, cached) ==
  [acc EXCEPT !.toSend = Append(@, candidate)]

\* the cache check of Step 2: a non-empty hit joins toApplyFromCache, anything
\* else joins toSend
planPush(acc, candidate, cached) ==
  IF cached.found /\ Len(cached.value) > 0
    THEN [acc EXCEPT !.toApplyFromCache =
                       Append(@, [candidate |-> candidate, translated |-> cached.value])]
    ELSE [acc EXCEPT !.toSend = Append(@, candidate)]

\* Step 2 of createTranslationPlan: one Candidate per surviving node, cache hit or miss
RECURSIVE planCandidates(_, _, _, _, _)
planCandidates(nodes, textNodes, userLevel, now, acc) ==
  IF nodes = <<>> THEN acc
  ELSE LET node == Head(nodes)
           nodeData == NodeDataOf(textNodes, node)
           rawText == nodeData.text
           normalizedText == normalizeText(rawText)
           textHash == hashText(normalizedText)
           cacheKey == generateCacheKey(textHash, userLevel)
           candidate == [node |-> node, rawText |-> rawText,
                         normalizedText |-> normalizedText, textHash |-> textHash,
                         cacheKey |-> cacheKey]
           cached == getByHash(acc.cache, textHash, userLevel, now)
           normalized == IF needsNormalization(rawText) THEN acc.normalized + 1
                         ELSE acc.normalized
       IN planCandidates(Tail(nodes), textNodes, userLevel, now,
            planPush([acc EXCEPT !.cache = cached.cache, !.normalized = normalized],
                     candidate, cached))

\* the Plan, with the cache as getByHash left it
createTranslationPlan(textNodes, cache, userLevel, fpMap, texts, now) ==
  LET unfingerprintedNodes ==
        filterUnprocessed(fpMap, texts, [i \in 1..Len(textNodes) |-> textNodes[i].node],
                          userLevel, "original")
      fingerprintFiltered == Len(textNodes) - Len(unfingerprintedNodes)
      step2 == planCandidates(unfingerprintedNodes, textNodes, userLevel, now,
                 [cache |-> cache, normalized |-> 0, toSend |-> <<>>,
                  toApplyFromCache |-> <<>>])
      dedup == batchDeduplicate(step2.toSend)
      stats == [total |-> Len(textNodes),
                fingerprintFiltered |-> fingerprintFiltered,
                cached |-> Len(step2.toApplyFromCache),
                toSend |-> Len(step2.toSend),
                unique |-> Len(dedup.uniqueTexts),
                normalized |-> step2.normalized,
                batchDedupSaved |-> Len(step2.toSend) - Len(dedup.uniqueTexts)]
  IN [toApplyFromCache |-> step2.toApplyFromCache,
      toSend |-> step2.toSend,
      uniqueTexts |-> dedup.uniqueTexts,
      textHashMap |-> dedup.textHashMap,
      stats |-> stats,
      cache |-> step2.cache]

\* the part of s before its first ':'
RECURSIVE UpToColon(_)
UpToColon(s) ==
  IF s = <<>> \/ Head(s) = 58 THEN <<>> ELSE <<Head(s)>> \o UpToColon(Tail(s))

\* cacheKey.split(':')[1] || 'A1': the cache key is `${textHash}:${userLevel}` and
\* the hash holds no ':', so parts[1] is the level up to its first ':'
extractUserLevel(cacheKey) ==
  LET part == UpToColon(cacheKey[2])
  IN IF part = <<>> THEN LevelA1 ELSE part

\* applyCachedTranslations: [texts, fpMap, applied, written]
RECURSIVE applyCachedLoop(_, _, _)
applyCachedLoop(entries, attached, acc) ==
  IF entries = <<>> THEN acc
  ELSE LET candidate == Head(entries).candidate
           translated == Head(entries).translated
           node == candidate.node
       IN IF ~attached[node]
            THEN applyCachedLoop(Tail(entries), attached, acc)
            ELSE LET texts2 == [acc.texts EXCEPT ![node] = translated]
                 IN applyCachedLoop(Tail(entries), attached,
                      [texts |-> texts2,
                       fpMap |-> markAsProcessed(acc.fpMap, texts2, node,
                                   extractUserLevel(candidate.cacheKey), "translated"),
                       applied |-> acc.applied + 1,
                       written |-> acc.written \cup {node}])

\* applyCachedTranslations without the isConnected check
applyCachedTranslationsUnchecked(plan, texts, attached, fpMap) ==
  applyCachedLoop(plan.toApplyFromCache, [n \in DOMAIN attached |-> TRUE],
    [texts |-> texts, fpMap |-> fpMap, applied |-> 0, written |-> {}])

applyCachedTranslations(plan, texts, attached, fpMap) ==
  applyCachedLoop(plan.toApplyFromCache, attached,
    [texts |-> texts, fpMap |-> fpMap, applied |-> 0, written |-> {}])

\* TextToTranslation that reads the first result for every text
TextToTranslationFirst(uniqueTexts, apiResults, text) ==
  IF \E i \in 1..Len(uniqueTexts) : uniqueTexts[i] = text
    THEN [found |-> TRUE, value |-> apiResults[1]]
    ELSE [found |-> FALSE, value |-> <<>>]

\* textToTranslation.get(text): the result at the last position holding text
TextToTranslation(uniqueTexts, apiResults, text) ==
  IF \E i \in 1..Len(uniqueTexts) : uniqueTexts[i] = text
    THEN LET last == CHOOSE i \in 1..Len(uniqueTexts) :
                        /\ uniqueTexts[i] = text
                        /\ \A j \in (i + 1)..Len(uniqueTexts) : uniqueTexts[j] # text
         IN [found |-> TRUE, value |-> apiResults[last]]
    ELSE [found |-> FALSE, value |-> <<>>]

\* mergeLoop without the check that the translation is non-empty
RECURSIVE mergeLoopKeepEmpty(_, _, _, _)
mergeLoopKeepEmpty(entries, uniqueTexts, apiResults, hashToTranslation) ==
  IF entries = <<>> THEN hashToTranslation
  ELSE LET hash == Head(entries).hash
           normalizedText == Head(entries).candidates[1].normalizedText
           translation == TextToTranslation(uniqueTexts, apiResults, normalizedText)
       IN mergeLoopKeepEmpty(Tail(entries), uniqueTexts, apiResults,
            Append(hashToTranslation, [hash |-> hash, translation |-> translation.value]))

RECURSIVE mergeLoop(_, _, _, _)
mergeLoop(entries, uniqueTexts, apiResults, hashToTranslation) ==
  IF entries = <<>> THEN hashToTranslation
  ELSE LET hash == Head(entries).hash
           normalizedText == Head(entries).candidates[1].normalizedText
           translation == TextToTranslation(uniqueTexts, apiResults, normalizedText)
       IN IF translation.found /\ Len(translation.value) > 0
            THEN mergeLoop(Tail(entries), uniqueTexts, apiResults,
                   Append(hashToTranslation, [hash |-> hash, translation |-> translation.value]))
            ELSE mergeLoop(Tail(entries), uniqueTexts, apiResults, hashToTranslation)

\* mergeApiResults whose length check is < instead of !==
mergeApiResultsShortOnly(plan, apiResults) ==
  IF Len(apiResults) < Len(plan.uniqueTexts)
    THEN [threw |-> TRUE, hashToTranslation |-> <<>>]
    ELSE [threw |-> FALSE,
          hashToTranslation |-> mergeLoop(plan.textHashMap, plan.uniqueTexts, apiResults, <<>>)]

\* mergeApiResults: [threw, hashToTranslation]
mergeApiResults(plan, apiResults) ==
  IF Len(apiResults) # Len(plan.uniqueTexts)
    THEN [threw |-> TRUE, hashToTranslation |-> <<>>]
    ELSE [threw |-> FALSE,
          hashToTranslation |-> mergeLoop(plan.textHashMap, plan.uniqueTexts, apiResults, <<>>)]

(***************************************************************************)
(* DomReplacer.applyTranslations: [texts, fpMap, applied, written]         *)
(***************************************************************************)
RECURSIVE applyTranslationsLoop(_, _, _, _, _)
applyTranslationsLoop(candidates, hashToTranslation, userLevel, attached, acc) ==
  IF candidates = <<>> THEN acc
  ELSE LET candidate == Head(candidates)
           i == HashIndex(hashToTranslation, candidate.textHash)
           node == candidate.node
       IN IF i = 0 \/ Len(hashToTranslation[i].translation) = 0
            THEN applyTranslationsLoop(Tail(candidates), hashToTranslation, userLevel,
                                       attached, acc)
          ELSE IF ~attached[node]
            THEN applyTranslationsLoop(Tail(candidates), hashToTranslation, userLevel,
                                       attached, acc)
          ELSE LET texts2 == [acc.texts EXCEPT ![node] = hashToTranslation[i].translation]
               IN applyTranslationsLoop(Tail(candidates), hashToTranslation, userLevel,
                    attached,
                    [texts |-> texts2,
                     fpMap |-> markAsProcessed(acc.fpMap, texts2, node, userLevel, "translated"),
                     applied |-> acc.applied + 1,
                     written |-> acc.written \cup {node}])

\* applyTranslations that counts every candidate, written or not
applyTranslationsCountAll(candidates, hashToTranslation, userLevel, texts, attached, fpMap) ==
  [applyTranslationsLoop(candidates, hashToTranslation, userLevel, attached,
     [texts |-> texts, fpMap |-> fpMap, applied |-> 0, written |-> {}])
   EXCEPT !.applied = Len(candidates)]

applyTranslations(candidates, hashToTranslation, userLevel, texts, attached, fpMap) ==
  applyTranslationsLoop(candidates, hashToTranslation, userLevel, attached,
    [texts |-> texts, fpMap |-> fpMap, applied |-> 0, written |-> {}])

(***************************************************************************)
(* ContainerFilter (utils/ContainerFilter): the eligibility of elements.   *)
(* A filter is the record of its fields config, blacklistCache and         *)
(* whitelistCache; attributes tells which elements carry                   *)
(* aria-hidden="true".                                                     *)
(***************************************************************************)
\* selectors: two type selectors, an attribute selector and one that
\* element.matches rejects with a SyntaxError
SelNav == "nav"
SelP == "p"
SelHidden == "[aria-hidden=\"true\"]"
SelInvalid == "p:"
SelButton == "button"
Selectors == {SelNav, SelP, SelHidden, SelInvalid}

\* <html><body><nav id=n1><p id=p1/></nav><div id=d1/></body></html>
Elements == {"html", "body", "n1", "p1", "d1"}
NoElement == "null"
Body == "body"
\* b1 is a <button id=b1/> appended to body on the page of the constructor runs
ButtonElement == "b1"
TagOf ==
  [html |-> "html", body |-> "body", n1 |-> "nav", p1 |-> "p", d1 |-> "div",
   b1 |-> "button"]
parentElement ==
  [html |-> NoElement, body |-> "html", n1 |-> "body", p1 |-> "n1", d1 |-> "body",
   b1 |-> "body"]

\* the selector parses: element.matches(selector) does not throw
IsValidSelector(selector) == selector # SelInvalid

\* element.matches(selector) for a selector that parses
ElementMatches(element, selector, attributes) ==
  IF selector = SelHidden THEN attributes[element] ELSE TagOf[element] = selector

\* for (const selector of selectors) { try { if (element.matches(selector)) ... }
\* catch { skip } }: some selector of the list matches
MatchesAny(selectors, element, attributes) ==
  \E i \in 1..Len(selectors) :
    IsValidSelector(selectors[i]) /\ ElementMatches(element, selectors[i], attributes)

\* the constructor's config: DEFAULT_CONFIG with BUTTON_SELECTORS and
\* NAVIGATION_SELECTORS pushed on the blacklist
ConstructedConfig ==
  [useBlacklist |-> TRUE, useWhitelist |-> FALSE,
   blacklistSelectors |-> <<SelHidden, SelNav>>,
   whitelistSelectors |-> <<SelP>>,
   excludeButtons |-> TRUE, excludeNavigation |-> TRUE]

ConstructedFilter ==
  [config |-> ConstructedConfig, blacklistCache |-> {}, whitelistCache |-> {}]

shouldProcessElement(filter, attributes, element) ==
  IF element \in filter.blacklistCache
    THEN [result |-> FALSE, filter |-> filter]
  ELSE IF filter.config.useWhitelist /\ element \in filter.whitelistCache
    THEN [result |-> TRUE, filter |-> filter]
  ELSE IF /\ filter.config.useBlacklist
          /\ MatchesAny(filter.config.blacklistSelectors, element, attributes)
    THEN [result |-> FALSE,
          filter |-> [filter EXCEPT !.blacklistCache = @ \cup {element}]]
  ELSE IF filter.config.useWhitelist
    THEN IF MatchesAny(filter.config.whitelistSelectors, element, attributes)
           THEN [result |-> TRUE,
                 filter |-> [filter EXCEPT !.whitelistCache = @ \cup {element}]]
           ELSE [result |-> FALSE, filter |-> filter]
  ELSE [result |-> TRUE, filter |-> filter]

\* the loop stopping after the element itself
RECURSIVE RecursiveLoopElementOnly(_, _, _)
RecursiveLoopElementOnly(filter, attributes, current) ==
  IF current = NoElement \/ current = Body THEN [result |-> TRUE, filter |-> filter]
  ELSE LET r == shouldProcessElement(filter, attributes, current)
       IN IF ~r.result THEN r ELSE [result |-> TRUE, filter |-> r.filter]

\* while (current && current !== document.body) { ...; current = current.parentElement }
RECURSIVE RecursiveLoop(_, _, _)
RecursiveLoop(filter, attributes, current) ==
  IF current = NoElement \/ current = Body THEN [result |-> TRUE, filter |-> filter]
  ELSE LET r == shouldProcessElement(filter, attributes, current)
       IN IF ~r.result THEN r
          ELSE RecursiveLoop(r.filter, attributes, parentElement[current])

shouldProcessElementRecursive(filter, attributes, element) ==
  RecursiveLoop(filter, attributes, element)

clearCache(filter) == [filter EXCEPT !.blacklistCache = {}, !.whitelistCache = {}]

\* { ...this.config, ...config }
SpreadConfig(config, partial) ==
  [k \in DOMAIN config |-> IF k \in DOMAIN partial THEN partial[k] ELSE config[k]]

\* the module-level array DEFAULT_BLACKLIST_SELECTORS as the module loads it
DEFAULT_BLACKLIST_SELECTORS == <<SelHidden>>

\* DEFAULT_CONFIG of the filter module, whose blacklistSelectors is the
\* module-level array in its current state
DEFAULT_FILTER_CONFIG(defaultBlacklist) ==
  [useBlacklist |-> TRUE, useWhitelist |-> FALSE,
   blacklistSelectors |-> defaultBlacklist,
   whitelistSelectors |-> <<SelP>>,
   excludeButtons |-> TRUE, excludeNavigation |-> TRUE]

\* new ContainerFilter(partial), for a partial that names no blacklistSelectors:
\* the spread copies the reference to the module-level array, and the two
\* pushes append to that array; the filter's blacklistSelectors is the array
ContainerFilterConstructor(defaultBlacklist, partial) ==
  LET spread == SpreadConfig(DEFAULT_FILTER_CONFIG(defaultBlacklist), partial)
      withButtons == IF spread.excludeButtons
                       THEN spread.blacklistSelectors \o <<SelButton>>
                       ELSE spread.blacklistSelectors
      withNavigation == IF spread.excludeNavigation
                          THEN withButtons \o <<SelNav>>
                          ELSE withButtons
  IN [config |-> [spread EXCEPT !.blacklistSelectors = withNavigation],
      blacklistCache |-> {}, whitelistCache |-> {}]

updateConfig(filter, partial) ==
  clearCache([filter EXCEPT !.config = SpreadConfig(filter.config, partial)])

\* selectors.includes(selector)
Includes(selectors, selector) == \E i \in 1..Len(selectors) : selectors[i] = selector

\* selectors.indexOf(selector), counted from 1; 0 when absent
IndexOf(selectors, selector) ==
  IF Includes(selectors, selector)
    THEN CHOOSE i \in 1..Len(selectors) :
           /\ selectors[i] = selector
           /\ \A k \in 1..(i - 1) : selectors[k] # selector
    ELSE 0

\* selectors.splice(index, 1)
Splice(selectors, index) ==
  SubSeq(selectors, 1, index - 1) \o SubSeq(selectors, index + 1, Len(selectors))

\* addBlacklistSelector keeping the memoized decisions
addBlacklistSelectorKeepCache(filter, selector) ==
  IF ~Includes(filter.config.blacklistSelectors, selector)
    THEN [filter EXCEPT !.config.blacklistSelectors = Append(@, selector)]
    ELSE filter

addBlacklistSelector(filter, selector) ==
  IF ~Includes(filter.config.blacklistSelectors, selector)
    THEN clearCache([filter EXCEPT !.config.blacklistSelectors = Append(@, selector)])
    ELSE filter

addWhitelistSelector(filter, selector) ==
  IF ~Includes(filter.config.whitelistSelectors, selector)
    THEN clearCache([filter EXCEPT !.config.whitelistSelectors = Append(@, selector)])
    ELSE filter

removeBlacklistSelector(filter, selector) ==
  LET index == IndexOf(filter.config.blacklistSelectors, selector)
  IN IF index > 0
       THEN clearCache([filter EXCEPT !.config.blacklistSelectors = Splice(@, index)])
       ELSE filter

removeWhitelistSelector(filter, selector) ==
  LET index == IndexOf(filter.config.whitelistSelectors, selector)
  IN IF index > 0
       THEN clearCache([filter EXCEPT !.config.whitelistSelectors = Splice(@, index)])
       ELSE filter

(***************************************************************************)
(* The page, the configuration and the TextProcessor.                      *)
(***************************************************************************)
\* bounds of the model
MaxCycles == 2
MaxHostMoves == 1

\* TranslationCache constructor default
DefaultMaxSize == 100

\* the text nodes of the page, in document order
NodeOrder == <<1, 2>>
Nodes == {NodeOrder[i] : i \in 1..Len(NodeOrder)}
Levels == {LevelA1, LevelB2}
\* the callers of processVisibleText: the 'scroll' / 'domChange' listeners
\* (the same fire-and-forget call) and start()
Callers == {"observer", "start"}
NoCaller == "none"

VARIABLES
  text,              \* textContent of every text node
  attached,          \* node.isConnected && node.parentElement?.isConnected
  config,            \* the stored UserConfig: [enabled, userLevel]
  now,               \* Date.now()
  observing,         \* scrollObserver / domObserver started
  fingerprintMap,    \* NodeFingerprintStore.fingerprintMap
  cache,             \* TranslationCache.cache
  maxSize,           \* TranslationCache.maxSize
  isProcessing, pendingRequest, apiCallInProgress,
  pc,                \* where each caller's processVisibleText call stands
  awaiting,          \* the pendingRequest a coalesced caller awaits
  plan,              \* the plan, the level and the sent call of each caller's cycle in flight
  planned,           \* history: the last call of createTranslationPlan and its plan
  merged,            \* history: the last response and what mergeApiResults made of it
  outcome,           \* history: how far the last cycle got
  cycleLog,          \* history: what the cycle in flight (or last ended) has written
  applied,           \* history: nodes the last apply step wrote, content unchanged since
  lastCall,          \* history: the last direct call of a store or cache operation
  lastIndex,         \* ZERO_WIDTH_REGEX.lastIndex (TextNormalizer.ts)
  filterConfig,      \* ContainerFilter.config
  blacklistCache,    \* ContainerFilter.blacklistCache
  whitelistCache,    \* ContainerFilter.whitelistCache
  attributes,        \* which elements of the page carry aria-hidden="true"
  cycles, hostMoves, \* bounded counters of started cycles and of host events
  timeoutId,         \* throttle closure: the pending timer's deadline, or none
  lastExecTime,      \* throttle closure: Date.now() of the last func call
  lastArgs,          \* throttle closure: arguments kept for the trailing call
  textProcessor,     \* content script: the global textProcessor
  isInitialized,     \* content script: the global isInitialized
  initializing,      \* where each initializeExtension call stands, and its processor
  processors,        \* what has been done with each TextProcessor created
  visibilityState    \* document.visibilityState

vars == <<text, attached, config, now, observing, fingerprintMap, cache, maxSize,
          isProcessing, pendingRequest, apiCallInProgress, pc, awaiting, plan,
          planned, merged, outcome, cycleLog, applied, lastCall, lastIndex,
          filterConfig, blacklistCache, whitelistCache, attributes,
          cycles, hostMoves, timeoutId, lastExecTime, lastArgs, textProcessor,
          isInitialized, initializing, processors, visibilityState>>

throttleVars == <<timeoutId, lastExecTime, lastArgs>>

contentVars ==
  <<textProcessor, isInitialized, initializing, processors, visibilityState>>

scriptVars == <<throttleVars, contentVars>>

\* let timeoutId = null / let lastArgs = null / let textProcessor = null
Null == <<>>

\* the calls of initializeExtension: by the document load, by the
\* visibilitychange listener and by the auth watcher
Invocations == {"load", "visible", "auth"}

\* the TextProcessor objects the script can create
ProcessorIds == {"P1", "P2", "P3"}

NotInitializing == [pc |-> "idle", processor |-> Null]

\* the throttle closure as throttle() returns it and the content script's
\* globals as the module loads them
ScriptLoaded ==
  /\ timeoutId = Null
  /\ lastExecTime = 0
  /\ lastArgs = Null
  /\ textProcessor = Null
  /\ isInitialized = FALSE
  /\ initializing = [i \in Invocations |-> NotInitializing]
  /\ processors = [p \in ProcessorIds |-> "none"]
  /\ visibilityState = "visible"

filterVars == <<filterConfig, blacklistCache, whitelistCache, attributes>>

\* new ContainerFilter() on a page where no element is hidden
FilterConstructed ==
  /\ filterConfig = ConstructedFilter.config
  /\ blacklistCache = ConstructedFilter.blacklistCache
  /\ whitelistCache = ConstructedFilter.whitelistCache
  /\ attributes = [e \in Elements |-> FALSE]

EmptyPlan ==
  [toApplyFromCache |-> <<>>, toSend |-> <<>>, uniqueTexts |-> <<>>,
   textHashMap |-> <<>>,
   stats |-> [total |-> 0, fingerprintFiltered |-> 0, cached |-> 0, toSend |-> 0,
              unique |-> 0, normalized |-> 0, batchDedupSaved |-> 0]]

\* the arguments of the sent call listing every candidate's text
processTextsArgsPerCandidate(p, userLevel) ==
  [texts |-> [i \in 1..Len(p.toSend) |-> p.toSend[i].normalizedText],
   userLevel |-> userLevel]

\* the arguments of apiService.processTexts(plan.uniqueTexts, userLevel)
processTextsArgs(p, userLevel) == [texts |-> p.uniqueTexts, userLevel |-> userLevel]

NoRequest == [texts |-> <<>>, userLevel |-> NoLevel]

NoCycle == [plan |-> EmptyPlan, userLevel |-> NoLevel, request |-> NoRequest]

NoLog ==
  [startCache |-> <<>>, written |-> {}, marked |-> {}, cachedNodes |-> {}, returned |-> 0]

NoCall == [op |-> "none"]

Init ==
  /\ text = [n \in Nodes |-> InitialText(n)]
  /\ attached = [n \in Nodes |-> TRUE]
  /\ config = [enabled |-> TRUE, userLevel |-> LevelA1]
  /\ now = 0
  /\ observing = FALSE
  /\ fingerprintMap = clearFingerprints(Nodes)
  /\ cache = <<>>
  /\ maxSize = DefaultMaxSize
  /\ isProcessing = FALSE
  /\ pendingRequest = NoCaller
  /\ apiCallInProgress = FALSE
  /\ pc = [c \in Callers |-> "idle"]
  /\ awaiting = [c \in Callers |-> NoCaller]
  /\ plan = [c \in Callers |-> NoCycle]
  /\ planned = [plan |-> EmptyPlan, userLevel |-> NoLevel, textNodes |-> <<>>,
                cache |-> <<>>]
  /\ merged = [arrived |-> FALSE, results |-> <<>>, threw |-> FALSE,
               hashToTranslation |-> <<>>, plan |-> EmptyPlan, userLevel |-> NoLevel]
  /\ outcome = "none"
  /\ cycleLog = NoLog
  /\ applied = [nodes |-> {}, userLevel |-> NoLevel]
  /\ lastCall = NoCall
  /\ lastIndex = 0
  /\ ScriptLoaded
  /\ FilterConstructed
  /\ cycles = 0
  /\ hostMoves = 0

(***************************************************************************)
(* TextExtractor.getVisibleChineseTextNodes: the connected text nodes that *)
(* hold a Chinese character, in document order.                            *)
(***************************************************************************)
RECURSIVE extractFrom(_, _, _)
extractFrom(order, texts, conn) ==
  IF order = <<>> THEN <<>>
  ELSE LET n == Head(order)
       IN IF conn[n] /\ isChineseText(texts[n])
            THEN <<[node |-> n, text |-> texts[n]]>> \o extractFrom(Tail(order), texts, conn)
            ELSE extractFrom(Tail(order), texts, conn)

getVisibleChineseTextNodes(texts, conn) == extractFrom(NodeOrder, texts, conn)

(***************************************************************************)
(* TextProcessor.processVisibleText, up to its first await.                *)
(***************************************************************************)
\* callDecision with the pendingRequest and isProcessing guards lost
callDecisionUnguarded(apiInProgress, pending, processing) ==
  IF apiInProgress THEN "dropped" ELSE "started"

\* callDecision testing pendingRequest before apiCallInProgress
callDecisionPendingFirst(apiInProgress, pending, processing) ==
  IF pending # NoCaller THEN "coalesced"
  ELSE IF apiInProgress \/ processing THEN "dropped"
  ELSE "started"

\* the three guards of processVisibleText
callDecision(apiInProgress, pending, processing) ==
  IF apiInProgress THEN "dropped"
  ELSE IF pending # NoCaller THEN "coalesced"
  ELSE IF processing THEN "dropped"
  ELSE "started"

NoPlanned ==
  [plan |-> EmptyPlan, userLevel |-> NoLevel, textNodes |-> <<>>, cache |-> <<>>]

NoMerged == [arrived |-> FALSE, results |-> <<>>, threw |-> FALSE,
             hashToTranslation |-> <<>>, plan |-> EmptyPlan, userLevel |-> NoLevel]

NoApplied == [nodes |-> {}, userLevel |-> NoLevel]

\* the call of processVisibleText by caller c; a dropped call changes nothing
processVisibleText(c) ==
  \E decision \in {callDecision(apiCallInProgress, pendingRequest, isProcessing)} :
     /\ pc[c] = "idle"
     /\ decision = "started" => cycles < MaxCycles
     /\ IF decision = "dropped"
          THEN UNCHANGED <<pc, awaiting, isProcessing, pendingRequest, cycleLog, cycles,
                           outcome, planned, merged, applied>>
        ELSE IF decision = "coalesced"
          THEN /\ pc' = [pc EXCEPT ![c] = "awaitPending"]
               /\ awaiting' = [awaiting EXCEPT ![c] = pendingRequest]
               /\ UNCHANGED <<isProcessing, pendingRequest, cycleLog, cycles, outcome,
                              planned, merged, applied>>
          ELSE /\ isProcessing' = TRUE
               /\ pendingRequest' = c
               /\ pc' = [pc EXCEPT ![c] = "awaitConfig"]
               /\ cycleLog' = [NoLog EXCEPT !.startCache = cache]
               /\ cycles' = cycles + 1
               /\ outcome' = "started"
               /\ planned' = NoPlanned
               /\ applied' = NoApplied
               /\ UNCHANGED <<awaiting, merged>>

\* scrollObserver 'scroll' / domObserver 'domChange' listener
Trigger ==
  /\ observing
  /\ processVisibleText("observer")
  /\ UNCHANGED <<text, attached, maxSize, lastCall, lastIndex, filterVars, scriptVars, config, now, observing, fingerprintMap, cache,
                 apiCallInProgress, plan, hostMoves>>

\* TextProcessor.start with the configuration enabled
Start ==
  /\ config.enabled
  /\ observing' = TRUE
  /\ processVisibleText("start")
  /\ UNCHANGED <<text, attached, maxSize, lastCall, lastIndex, filterVars, scriptVars, config, now, fingerprintMap, cache,
                 apiCallInProgress, plan, hostMoves>>

\* the finally block leaving pendingRequest set
finishCycleKeepPending(c, how) ==
  /\ isProcessing' = FALSE
  /\ pendingRequest' = pendingRequest
  /\ pc' = [d \in Callers |->
              IF d = c \/ (pc[d] = "awaitPending" /\ awaiting[d] = c) THEN "idle"
              ELSE pc[d]]
  /\ awaiting' = [d \in Callers |->
                    IF pc[d] = "awaitPending" /\ awaiting[d] = c THEN NoCaller
                    ELSE awaiting[d]]
  /\ outcome' = how
  /\ plan' = [plan EXCEPT ![c] = NoCycle]

\* the finally block of processVisibleText; the callers awaiting this cycle
\* return as it completes
finishCycle(c, how) ==
  /\ isProcessing' = FALSE
  /\ pendingRequest' = NoCaller
  /\ pc' = [d \in Callers |->
              IF d = c \/ (pc[d] = "awaitPending" /\ awaiting[d] = c) THEN "idle"
              ELSE pc[d]]
  /\ awaiting' = [d \in Callers |->
                    IF pc[d] = "awaitPending" /\ awaiting[d] = c THEN NoCaller
                    ELSE awaiting[d]]
  /\ outcome' = how
  /\ plan' = [plan EXCEPT ![c] = NoCycle]

\* the Plan without the cache the planner read it from
PlanOnly(r) ==
  [toApplyFromCache |-> r.toApplyFromCache, toSend |-> r.toSend,
   uniqueTexts |-> r.uniqueTexts, textHashMap |-> r.textHashMap, stats |-> r.stats]

NodesOf(candidates) == {candidates[i].node : i \in 1..Len(candidates)}

ToApplyNodes(p) == {p.toApplyFromCache[i].candidate.node : i \in 1..Len(p.toApplyFromCache)}

(***************************************************************************)
(* processVisibleTextInternal from getConfig to the dispatch: Collect,     *)
(* Plan, cache application, and the start of the API call.                 *)
(***************************************************************************)
CollectAndPlan(c) ==
  /\ pc[c] = "awaitConfig"
  /\ \E userLevel \in {config.userLevel} :
     \E textNodes \in {getVisibleChineseTextNodes(text, attached)} :
        IF Len(textNodes) = 0
          THEN /\ finishCycle(c, "empty")
               /\ UNCHANGED <<text, fingerprintMap, cache, apiCallInProgress, planned,
                              cycleLog, applied>>
          ELSE \E r \in {createTranslationPlan(textNodes, cache, userLevel,
                                               fingerprintMap, text, now)} :
               \E p \in {PlanOnly(r)} :
               \E a \in {IF Len(p.toApplyFromCache) > 0
                            THEN applyCachedTranslations(p, text, attached, fingerprintMap)
                            ELSE [texts |-> text, fpMap |-> fingerprintMap, applied |-> 0,
                                  written |-> {}]} :
               \E cachedNodes \in {ToApplyNodes(p)} :
                  /\ cache' = r.cache
                  /\ text' = a.texts
                  /\ fingerprintMap' = a.fpMap
                  /\ planned' = [plan |-> p, userLevel |-> userLevel,
                                 textNodes |-> textNodes, cache |-> cache]
                  /\ cycleLog' = [cycleLog EXCEPT !.written = @ \cup a.written,
                                                  !.marked = @ \cup a.written,
                                                  !.cachedNodes = cachedNodes,
                                                  !.returned = a.applied]
                  /\ applied' = [applied EXCEPT !.nodes = @ \ a.written]
                  /\ IF Len(p.uniqueTexts) = 0
                       THEN /\ finishCycle(c, "cached")
                            /\ UNCHANGED apiCallInProgress
                       ELSE /\ apiCallInProgress' = TRUE
                            /\ pc' = [pc EXCEPT ![c] = "awaitApi"]
                            /\ plan' = [plan EXCEPT ![c] =
                                          [plan |-> p, userLevel |-> userLevel,
                                           request |-> processTextsArgs(p, userLevel)]]
                            /\ outcome' = "dispatched"
                            /\ UNCHANGED <<isProcessing, pendingRequest, awaiting>>
  /\ UNCHANGED <<attached, maxSize, lastCall, lastIndex, filterVars, scriptVars, config, now, observing, merged, cycles, hostMoves>>

(***************************************************************************)
(* processVisibleTextInternal after the dispatch: merge, cache update and  *)
(* Apply.                                                                  *)
(***************************************************************************)
\* the cache update loop writing only the identity mapping
RECURSIVE updateCacheIdentityOnly(_, _, _, _)
updateCacheIdentityOnly(c0, hashToTranslation, userLevel, t) ==
  IF hashToTranslation = <<>> THEN c0
  ELSE LET translation == Head(hashToTranslation).translation
           c2 == IF isChineseText(translation)
                   THEN cacheSet(c0, translation, userLevel, translation, t, maxSize)
                   ELSE c0
       IN updateCacheIdentityOnly(c2, Tail(hashToTranslation), userLevel, t)

\* the cache update loop over hashToTranslation, with the identity mapping
RECURSIVE updateCache(_, _, _, _)
updateCache(c0, hashToTranslation, userLevel, t) ==
  IF hashToTranslation = <<>> THEN c0
  ELSE LET hash == Head(hashToTranslation).hash
           translation == Head(hashToTranslation).translation
           c1 == setByHash(c0, hash, userLevel, translation, t, maxSize)
           c2 == IF isChineseText(translation)
                   THEN cacheSet(c1, translation, userLevel, translation, t, maxSize)
                   ELSE c1
       IN updateCache(c2, Tail(hashToTranslation), userLevel, t)

\* what the rewriting service may answer to n texts: every aligned answer,
\* one that is too short and one that is too long
ApiResponses(n) ==
  [1..n -> ApiTexts] \cup {[i \in 1..(n + 1) |-> ResTest]}
    \cup (IF n > 0 THEN {[i \in 1..(n - 1) |-> ResTest]} ELSE {})

\* apiService.processTexts resolves with apiResults
ApiResolve(c, apiResults) ==
  /\ pc[c] = "awaitApi"
  /\ apiCallInProgress' = FALSE
  /\ now' = now + 1
  /\ \E p \in {plan[c].plan} :
     \E userLevel \in {plan[c].userLevel} :
     \E m \in {mergeApiResults(p, apiResults)} :
        /\ merged' = [arrived |-> TRUE, results |-> apiResults, threw |-> m.threw,
                      hashToTranslation |-> m.hashToTranslation, plan |-> p,
                      userLevel |-> userLevel]
        /\ IF m.threw
             THEN /\ finishCycle(c, "mismatch")
                  /\ UNCHANGED <<text, fingerprintMap, cache, cycleLog, applied>>
             ELSE \E a \in {applyTranslations(p.toSend, m.hashToTranslation, userLevel,
                                                 text, attached, fingerprintMap)} :
                     /\ cache' = updateCache(cache, m.hashToTranslation, userLevel, now')
                     /\ text' = a.texts
                     /\ fingerprintMap' = a.fpMap
                     /\ cycleLog' = [cycleLog EXCEPT !.written = @ \cup a.written,
                                                     !.marked = @ \cup a.written,
                                                     !.returned = a.applied]
                     /\ applied' = [nodes |-> a.written, userLevel |-> userLevel]
                     /\ finishCycle(c, "applied")
  /\ UNCHANGED <<attached, maxSize, lastCall, lastIndex, filterVars, scriptVars, config, observing, planned, cycles, hostMoves>>

\* apiService.processTexts rejects
ApiReject(c) ==
  /\ pc[c] = "awaitApi"
  /\ apiCallInProgress' = FALSE
  /\ now' = now + 1
  /\ finishCycle(c, "rejected")
  /\ UNCHANGED <<text, attached, maxSize, lastCall, lastIndex, filterVars, scriptVars, config, observing, fingerprintMap, cache,
                 planned, merged, cycleLog, applied, cycles, hostMoves>>

(***************************************************************************)
(* The host page and the user.  The clock advances by one while a dispatch *)
(* is outstanding.                                                         *)
(***************************************************************************)
\* host events are followed while a cycle is running or can still start
MayMove == hostMoves < MaxHostMoves /\ (isProcessing \/ cycles < MaxCycles)

HostSetText(n, t) ==
  /\ MayMove
  /\ t # text[n]
  /\ text' = [text EXCEPT ![n] = t]
  /\ applied' = [applied EXCEPT !.nodes = @ \ {n}]
  /\ hostMoves' = hostMoves + 1
  /\ UNCHANGED <<attached, maxSize, lastCall, lastIndex, filterVars, scriptVars, config, now, observing, fingerprintMap, cache, isProcessing,
                 pendingRequest, apiCallInProgress, pc, awaiting, plan, planned, merged,
                 outcome, cycleLog, cycles>>

HostDetach(n) ==
  /\ MayMove
  /\ attached[n]
  /\ attached' = [attached EXCEPT ![n] = FALSE]
  /\ hostMoves' = hostMoves + 1
  /\ UNCHANGED <<text, maxSize, lastCall, lastIndex, filterVars, scriptVars, config, now, observing, fingerprintMap,
                 cache, isProcessing, pendingRequest, apiCallInProgress, pc, awaiting,
                 plan, planned, merged, outcome, cycleLog, applied, cycles>>

\* TextProcessor.stop
stopEffects ==
  /\ observing' = FALSE
  /\ fingerprintMap' = clearFingerprints(Nodes)
  /\ applied' = [applied EXCEPT !.nodes = {}]

\* the watchConfig callback: stop() when the new configuration is disabled;
\* when it is enabled the callback calls start(), whose body after its first
\* await is the action Start
configChanged(newConfig) ==
  /\ config' = newConfig
  /\ IF newConfig.enabled THEN UNCHANGED <<observing, fingerprintMap, applied>>
     ELSE stopEffects
  /\ UNCHANGED <<text, attached, maxSize, lastCall, lastIndex, filterVars, scriptVars, now, cache, isProcessing, pendingRequest,
                 apiCallInProgress, pc, awaiting, plan, planned, merged, outcome,
                 cycleLog, cycles>>

\* the user changes the proficiency level
SetLevel(level) ==
  /\ MayMove
  /\ level # config.userLevel
  /\ configChanged([config EXCEPT !.userLevel = level])
  /\ hostMoves' = hostMoves + 1

\* the user switches the extension on or off; watchConfig calls stop() when off
SetEnabled(enabled) ==
  /\ MayMove
  /\ enabled # config.enabled
  /\ configChanged([config EXCEPT !.enabled = enabled])
  /\ hostMoves' = hostMoves + 1

Next ==
  \/ Trigger
  \/ Start
  \/ \E c \in Callers : CollectAndPlan(c)
  \/ \E c \in Callers : \E r \in ApiResponses(Len(plan[c].request.texts)) : ApiResolve(c, r)
  \/ \E c \in Callers : ApiReject(c)
  \/ \E n \in Nodes : \E t \in HostTextsOf(n) : HostSetText(n, t)
  \/ \E n \in Nodes : HostDetach(n)
  \/ \E level \in Levels : SetLevel(level)
  \/ \E enabled \in BOOLEAN : SetEnabled(enabled)

Spec == Init /\ [][Next]_vars

(***************************************************************************)
(* The planner on its own: createTranslationPlan over any list of entities *)
(* (repeated ones included) and any state of the fingerprint store and the *)
(* cache, followed by mergeApiResults on any response.                     *)
(***************************************************************************)
\* longest list of entities handed to createTranslationPlan
MaxListLen == 3

NodeLists == UNION {[1..k -> Nodes] : k \in 1..MaxListLen}

Modes == {"original", "translated"}

\* what the store may hold for a node: nothing, or its marking at A1 in either mode
PlanMarks(texts, n) ==
  {NoInfo} \cup {markAsProcessed(clearFingerprints(Nodes), texts, n, LevelA1, mode)[n] :
                   mode \in Modes}

AllPlanMarks ==
  UNION {PlanMarks([m \in Nodes |-> t], n) : t \in HostTexts, n \in Nodes}

cacheWith(c0, textHash, value) ==
  setByHash(c0, textHash, LevelA1, value, 0, DefaultMaxSize)

\* caches at level A1: "测试" cached or not; the hash of "要同下" absent, cached
\* with an empty value, or cached with "测t"
PlanCaches ==
  LET base == {<<>>, cacheWith(<<>>, hashText(TextYao), ResEmpty),
               cacheWith(<<>>, hashText(TextYao), ResMixed)}
  IN base \cup {cacheWith(c0, hashText(TextCeshi), ResTest) : c0 \in base}

PlanInit ==
  /\ text \in [Nodes -> HostTexts]
  /\ \A n \in Nodes : text[n] \in HostTextsOf(n)
  /\ attached = [n \in Nodes |-> TRUE]
  /\ config \in {[enabled |-> TRUE, userLevel |-> level] : level \in Levels}
  /\ now = 0
  /\ observing = FALSE
  /\ fingerprintMap \in [Nodes -> AllPlanMarks]
  /\ \A n \in Nodes : fingerprintMap[n] \in PlanMarks(text, n)
  /\ cache \in PlanCaches
  /\ maxSize = DefaultMaxSize
  /\ isProcessing = FALSE
  /\ pendingRequest = NoCaller
  /\ apiCallInProgress = FALSE
  /\ pc = [c \in Callers |-> "idle"]
  /\ awaiting = [c \in Callers |-> NoCaller]
  /\ plan = [c \in Callers |-> NoCycle]
  /\ planned = NoPlanned
  /\ merged = NoMerged
  /\ outcome = "none"
  /\ cycleLog = NoLog
  /\ applied = NoApplied
  /\ lastCall = NoCall
  /\ lastIndex = 0
  /\ ScriptLoaded
  /\ FilterConstructed
  /\ cycles = 0
  /\ hostMoves = 0

\* createTranslationPlan(textNodes, cache, userLevel) over the entities of nodes
PlanCall(nodes) ==
  /\ planned = NoPlanned
  /\ \E textNodes \in {[i \in 1..Len(nodes) |->
                           [node |-> nodes[i], text |-> text[nodes[i]]]]} :
     \E r \in {createTranslationPlan(textNodes, cache, config.userLevel,
                                      fingerprintMap, text, now)} :
        /\ planned' = [plan |-> PlanOnly(r), userLevel |-> config.userLevel,
                       textNodes |-> textNodes, cache |-> cache]
        /\ cache' = r.cache
  /\ UNCHANGED <<text, attached, maxSize, lastCall, lastIndex, filterVars, scriptVars, config, now, observing, fingerprintMap, isProcessing,
                 pendingRequest, apiCallInProgress, pc, awaiting, plan, merged, outcome,
                 cycleLog, applied, cycles, hostMoves>>

\* mergeApiResults(plan, apiResults) on the plan just made
MergeCall(apiResults) ==
  /\ planned # NoPlanned
  /\ planned.plan.uniqueTexts # <<>>
  /\ ~merged.arrived
  /\ \E m \in {mergeApiResults(planned.plan, apiResults)} :
        merged' = [arrived |-> TRUE, results |-> apiResults, threw |-> m.threw,
                   hashToTranslation |-> m.hashToTranslation, plan |-> planned.plan,
                   userLevel |-> planned.userLevel]
  /\ UNCHANGED <<text, attached, maxSize, lastCall, lastIndex, filterVars, scriptVars, config, now, observing, fingerprintMap, cache,
                 isProcessing, pendingRequest, apiCallInProgress, pc, awaiting, plan,
                 planned, outcome, cycleLog, applied, cycles, hostMoves>>

PlanNext ==
  \/ \E nodes \in NodeLists : PlanCall(nodes)
  \/ \E r \in ApiResponses(Len(planned.plan.uniqueTexts)) : MergeCall(r)

PlanSpec == PlanInit /\ [][PlanNext]_vars

(***************************************************************************)
(* The two apply functions on their own: a plan over the entities of the   *)
(* page, applyCachedTranslations, mergeApiResults on any response and      *)
(* applyTranslations, for any set of detached entities and any level.      *)
(***************************************************************************)
\* the variables of the TextProcessor that the direct calls leave alone
processorVars ==
  <<observing, isProcessing, pendingRequest, apiCallInProgress, pc, awaiting, plan,
    applied, cycles, hostMoves>>

ApplyLevels == {LevelA1, LevelB2x, NoLevel}

\* caches at a level: empty, "测试" cached, "测试" and the hash of "要同下" cached
ApplyCaches(level) ==
  LET c1 == setByHash(<<>>, hashText(TextCeshi), level, ResTest, 0, DefaultMaxSize)
  IN {<<>>, c1, setByHash(c1, hashText(TextYao), level, ResMixed, 0, DefaultMaxSize)}

\* the lists the Extractor can hand over: no entity twice
EntityLists ==
  {l \in UNION {[1..k -> Nodes] : k \in 1..Cardinality(Nodes)} :
     \A i \in 1..Len(l) : \A j \in 1..Len(l) : i # j => l[i] # l[j]}

ApplyInit ==
  /\ text \in [Nodes -> HostTexts]
  /\ \A n \in Nodes : text[n] \in HostTextsOf(n)
  /\ attached \in [Nodes -> BOOLEAN]
  /\ config \in {[enabled |-> TRUE, userLevel |-> level] : level \in ApplyLevels}
  /\ now = 0
  /\ observing = FALSE
  /\ fingerprintMap = clearFingerprints(Nodes)
  /\ cache \in ApplyCaches(config.userLevel)
  /\ maxSize = DefaultMaxSize
  /\ isProcessing = FALSE
  /\ pendingRequest = NoCaller
  /\ apiCallInProgress = FALSE
  /\ pc = [c \in Callers |-> "idle"]
  /\ awaiting = [c \in Callers |-> NoCaller]
  /\ plan = [c \in Callers |-> NoCycle]
  /\ planned = NoPlanned
  /\ merged = NoMerged
  /\ outcome = "none"
  /\ cycleLog = NoLog
  /\ applied = NoApplied
  /\ lastCall = NoCall
  /\ lastIndex = 0
  /\ ScriptLoaded
  /\ FilterConstructed
  /\ cycles = 0
  /\ hostMoves = 0

\* createTranslationPlan over the entities of nodes
ApplyPlanCall(nodes) ==
  /\ outcome = "none"
  /\ \E textNodes \in {[i \in 1..Len(nodes) |->
                           [node |-> nodes[i], text |-> text[nodes[i]]]]} :
     \E r \in {createTranslationPlan(textNodes, cache, config.userLevel,
                                      fingerprintMap, text, now)} :
        /\ planned' = [plan |-> PlanOnly(r), userLevel |-> config.userLevel,
                       textNodes |-> textNodes, cache |-> cache]
        /\ cache' = r.cache
  /\ outcome' = "planned"
  /\ UNCHANGED <<text, attached, config, now, fingerprintMap, maxSize, merged, cycleLog,
                 lastCall, processorVars, lastIndex, filterVars, scriptVars>>

\* applyCachedTranslations(plan)
ApplyCachedCall ==
  /\ outcome = "planned"
  /\ \E a \in {applyCachedTranslations(planned.plan, text, attached, fingerprintMap)} :
        /\ text' = a.texts
        /\ fingerprintMap' = a.fpMap
        /\ cycleLog' = [cycleLog EXCEPT !.written = a.written, !.marked = a.written,
                                        !.cachedNodes = ToApplyNodes(planned.plan),
                                        !.returned = a.applied]
  /\ outcome' = "cached"
  /\ UNCHANGED <<attached, config, now, cache, maxSize, planned, merged, lastCall,
                 processorVars, lastIndex, filterVars, scriptVars>>

\* mergeApiResults(plan, apiResults)
ApplyMergeCall(apiResults) ==
  /\ outcome = "cached"
  /\ planned.plan.uniqueTexts # <<>>
  /\ \E m \in {mergeApiResults(planned.plan, apiResults)} :
        /\ merged' = [arrived |-> TRUE, results |-> apiResults, threw |-> m.threw,
                      hashToTranslation |-> m.hashToTranslation, plan |-> planned.plan,
                      userLevel |-> planned.userLevel]
        /\ outcome' = IF m.threw THEN "mismatch" ELSE "merged"
  /\ UNCHANGED <<text, attached, config, now, fingerprintMap, cache, maxSize, planned,
                 cycleLog, lastCall, processorVars, lastIndex, filterVars, scriptVars>>

\* applyTranslations(plan.toSend, hashToTranslation, userLevel)
ApplyCall ==
  /\ outcome = "merged"
  /\ \E a \in {applyTranslations(planned.plan.toSend, merged.hashToTranslation,
                                  planned.userLevel, text, attached, fingerprintMap)} :
        /\ text' = a.texts
        /\ fingerprintMap' = a.fpMap
        /\ cycleLog' = [cycleLog EXCEPT !.written = a.written, !.marked = a.written,
                                        !.returned = a.applied]
  /\ outcome' = "applied"
  /\ UNCHANGED <<attached, config, now, cache, maxSize, planned, merged, lastCall,
                 processorVars, lastIndex, filterVars, scriptVars>>

ApplyNext ==
  \/ \E nodes \in EntityLists : ApplyPlanCall(nodes)
  \/ ApplyCachedCall
  \/ \E r \in ApiResponses(Len(planned.plan.uniqueTexts)) : ApplyMergeCall(r)
  \/ ApplyCall

ApplySpec == ApplyInit /\ [][ApplyNext]_vars

(***************************************************************************)
(* The fingerprint store on its own: markAsProcessed and clear called with *)
(* any entity, level and mode, while the page changes the entities' texts. *)
(***************************************************************************)
\* the variables the direct calls of the store and of the cache leave alone
cycleVars == <<planned, merged, outcome, cycleLog>>

StoreLevels == {LevelA1, LevelB2x}

\* the texts the page gives the entities: two of them have one hash
StoreTexts == {TextCeshiSp, TextYao, TextXiao}

StoreInit ==
  /\ text = [n \in Nodes |-> InitialText(n)]
  /\ attached = [n \in Nodes |-> TRUE]
  /\ config = [enabled |-> TRUE, userLevel |-> LevelA1]
  /\ now = 0
  /\ observing = FALSE
  /\ fingerprintMap = clearFingerprints(Nodes)
  /\ cache = <<>>
  /\ maxSize = DefaultMaxSize
  /\ isProcessing = FALSE
  /\ pendingRequest = NoCaller
  /\ apiCallInProgress = FALSE
  /\ pc = [c \in Callers |-> "idle"]
  /\ awaiting = [c \in Callers |-> NoCaller]
  /\ plan = [c \in Callers |-> NoCycle]
  /\ planned = NoPlanned
  /\ merged = NoMerged
  /\ outcome = "none"
  /\ cycleLog = NoLog
  /\ applied = NoApplied
  /\ lastCall = NoCall
  /\ lastIndex = 0
  /\ ScriptLoaded
  /\ FilterConstructed
  /\ cycles = 0
  /\ hostMoves = 0

\* markAsProcessed(textNode, userLevel, mode)
StoreMark(textNode, userLevel, mode) ==
  /\ fingerprintMap' = markAsProcessed(fingerprintMap, text, textNode, userLevel, mode)
  /\ lastCall' = [op |-> "mark", node |-> textNode, userLevel |-> userLevel,
                  mode |-> mode,
                  before |-> [has |-> fingerprintMap[textNode].has,
                              userLevel |-> fingerprintMap[textNode].userLevel]]
  /\ UNCHANGED <<text, attached, config, now, cache, maxSize, cycleVars, processorVars, lastIndex, filterVars, scriptVars>>

\* NodeFingerprintStore.clear
StoreClear ==
  /\ fingerprintMap' = clearFingerprints(Nodes)
  /\ lastCall' = [op |-> "clear"]
  /\ UNCHANGED <<text, attached, config, now, cache, maxSize, cycleVars, processorVars, lastIndex, filterVars, scriptVars>>

\* the page changes the text of an entity
StoreSetText(n, t) ==
  /\ t # text[n]
  /\ text' = [text EXCEPT ![n] = t]
  /\ lastCall' = [op |-> "text"]
  /\ UNCHANGED <<attached, config, now, fingerprintMap, cache, maxSize, cycleVars,
                 processorVars, lastIndex, filterVars, scriptVars>>

StoreNext ==
  \/ \E n \in Nodes : \E level \in StoreLevels : \E mode \in Modes : StoreMark(n, level, mode)
  \/ StoreClear
  \/ \E n \in Nodes : \E t \in StoreTexts : StoreSetText(n, t)

StoreSpec == StoreInit /\ [][StoreNext]_vars

(***************************************************************************)
(* The cache on its own: a TranslationCache constructed with any capacity, *)
(* then set, get and clear called in any order while the clock advances,   *)
(* between the calls and between the readings of Date.now() within a set.  *)
(* Date.now() is taken to be non-decreasing.                               *)
(***************************************************************************)
\* the capacities the cache is constructed with
Capacities == {0, 1, 2}

\* latest reading of the clock
MaxClock == 2

\* largest accessCount an item reaches
MaxAccessCount == 2

\* "测", "测-A", and the levels "1" and "A-1"
TextCe == <<27979>>
TextCeDashA == <<27979, 45, 65>>
LevelOne == <<49>>
LevelADashOne == <<65, 45, 49>>

\* the (text, userLevel) arguments of set and get
CacheArgs ==
  {<<TextCeshi, LevelA1>>, <<TextCeshi, LevelB2>>, <<TextXiao, LevelA1>>,
   <<TextCeDashA, LevelOne>>, <<TextCe, LevelADashOne>>}

\* the value a caller stores for its arguments: it names them, "text|level"
ValueOf(args) == args[1] \o <<124>> \o args[2]

CacheInit ==
  /\ text = [n \in Nodes |-> InitialText(n)]
  /\ attached = [n \in Nodes |-> TRUE]
  /\ config = [enabled |-> TRUE, userLevel |-> LevelA1]
  /\ now = 0
  /\ observing = FALSE
  /\ fingerprintMap = clearFingerprints(Nodes)
  /\ cache = <<>>
  /\ maxSize \in Capacities
  /\ isProcessing = FALSE
  /\ pendingRequest = NoCaller
  /\ apiCallInProgress = FALSE
  /\ pc = [c \in Callers |-> "idle"]
  /\ awaiting = [c \in Callers |-> NoCaller]
  /\ plan = [c \in Callers |-> NoCycle]
  /\ planned = NoPlanned
  /\ merged = NoMerged
  /\ outcome = "none"
  /\ cycleLog = NoLog
  /\ applied = NoApplied
  /\ lastCall = NoCall
  /\ lastIndex = 0
  /\ ScriptLoaded
  /\ FilterConstructed
  /\ cycles = 0
  /\ hostMoves = 0

\* the keys of the items of a cache
KeysOf(c0) == {c0[i].key : i \in 1..Len(c0)}

\* the readings of Date.now() in a loop over n items that starts when the clock
\* reads t
ClockReadings(n, t) ==
  {times \in [1..n -> t..MaxClock] : \A i \in 1..(n - 1) : times[i] <= times[i + 1]}

\* set(text, userLevel, results); the history records the key set and the keys
\* deleted by the call of evictLeastUsed
CacheSetOp(t, userLevel, results) ==
  /\ \E times \in (IF Len(cache) >= maxSize THEN ClockReadings(Len(cache), now)
                     ELSE {<<>>}) :
     \E stamp \in {IF times = <<>> THEN now ELSE times[Len(times)]} :
        /\ cache' = cacheSetAt(cache, t, userLevel, results, times, stamp, maxSize)
        /\ now' = stamp
        /\ lastCall' = [op |-> "set", key |-> generateKey(t, userLevel),
                        text |-> t, userLevel |-> userLevel, value |-> results,
                        evicted |-> IF Len(cache) >= maxSize
                                      THEN KeysOf(cache)
                                             \ KeysOf(evictLeastUsedAt(cache, times))
                                      ELSE {}]
  /\ UNCHANGED <<text, attached, config, fingerprintMap, maxSize, cycleVars,
                 processorVars, lastIndex, filterVars, scriptVars>>

\* get(text, userLevel)
CacheGetOp(t, userLevel) ==
  /\ \A i \in 1..Len(cache) : cache[i].accessCount < MaxAccessCount
  /\ \E r \in {cacheGet(cache, t, userLevel, now)} :
        /\ cache' = r.cache
        /\ lastCall' = [op |-> "get", text |-> t, userLevel |-> userLevel,
                        found |-> r.found, value |-> r.value]
  /\ UNCHANGED <<text, attached, config, now, fingerprintMap, maxSize, cycleVars,
                 processorVars, lastIndex, filterVars, scriptVars>>

\* clear()
CacheClearOp ==
  /\ cache' = <<>>
  /\ lastCall' = [op |-> "clear"]
  /\ UNCHANGED <<text, attached, config, now, fingerprintMap, maxSize, cycleVars,
                 processorVars, lastIndex, filterVars, scriptVars>>

\* time passes between two calls
CacheTick ==
  /\ now < MaxClock
  /\ now' = now + 1
  /\ lastCall' = [op |-> "tick"]
  /\ UNCHANGED <<text, attached, config, fingerprintMap, cache, maxSize, cycleVars,
                 processorVars, lastIndex, filterVars, scriptVars>>

CacheNext ==
  \/ \E args \in CacheArgs : CacheSetOp(args[1], args[2], ValueOf(args))
  \/ \E args \in CacheArgs : CacheGetOp(args[1], args[2])
  \/ CacheClearOp
  \/ CacheTick

CacheSpec == CacheInit /\ [][CacheNext]_vars

(***************************************************************************)
(* The normalizer on its own: normalizeText on any text and any            *)
(* combination of the five toggles, applied once more to its own result,   *)
(* and needsNormalization on any text, in a freshly loaded module.         *)
(***************************************************************************)
\* longest text handed to the normalizer
MaxTextLen == 3

\* space, tab, line feed, zero-width space, byte order mark, full-width space, "测"
NormAlphabet == {32, 9, 10, 8203, 65279, FULL_WIDTH_SPACE, 27979}

NormTexts == UNION {[1..k -> NormAlphabet] : k \in 0..MaxTextLen}

\* { ...DEFAULT_CONFIG, ...config } for any config
NormConfigs ==
  [trim : BOOLEAN, collapseWhitespace : BOOLEAN, removeZeroWidth : BOOLEAN,
   convertFullWidth : BOOLEAN, removeLineBreaks : BOOLEAN]

\* the variables the calls of the normalizer leave alone
storeVars == <<text, attached, config, now, fingerprintMap, cache, maxSize>>

NormInit ==
  /\ text = [n \in Nodes |-> InitialText(n)]
  /\ attached = [n \in Nodes |-> TRUE]
  /\ config = [enabled |-> TRUE, userLevel |-> LevelA1]
  /\ now = 0
  /\ observing = FALSE
  /\ fingerprintMap = clearFingerprints(Nodes)
  /\ cache = <<>>
  /\ maxSize = DefaultMaxSize
  /\ isProcessing = FALSE
  /\ pendingRequest = NoCaller
  /\ apiCallInProgress = FALSE
  /\ pc = [c \in Callers |-> "idle"]
  /\ awaiting = [c \in Callers |-> NoCaller]
  /\ plan = [c \in Callers |-> NoCycle]
  /\ planned = NoPlanned
  /\ merged = NoMerged
  /\ outcome = "none"
  /\ cycleLog = NoLog
  /\ applied = NoApplied
  /\ lastCall \in [op : {"none"}, text : NormTexts, config : NormConfigs]
  /\ lastIndex = 0
  /\ ScriptLoaded
  /\ FilterConstructed
  /\ cycles = 0
  /\ hostMoves = 0

\* normalizeText(text, config); replace with a g regex leaves its lastIndex 0
NormalizeCall ==
  /\ lastCall.op = "none"
  /\ lastCall' = [op |-> "normalizeText", text |-> lastCall.text,
                  config |-> lastCall.config,
                  result |-> normalizeTextWith(lastCall.text, lastCall.config)]
  /\ lastIndex' = IF lastCall.config.removeZeroWidth THEN 0 ELSE lastIndex
  /\ UNCHANGED <<storeVars, cycleVars, processorVars, filterVars, scriptVars>>

\* normalizeText(result, config) on the result of the last call
NormalizeResultCall ==
  /\ lastCall.op = "normalizeText"
  /\ lastCall' = [op |-> "normalizeTwice", text |-> lastCall.text,
                  config |-> lastCall.config, first |-> lastCall.result,
                  result |-> normalizeTextWith(lastCall.result, lastCall.config)]
  /\ lastIndex' = IF lastCall.config.removeZeroWidth THEN 0 ELSE lastIndex
  /\ UNCHANGED <<storeVars, cycleVars, processorVars, filterVars, scriptVars>>

\* needsNormalization(text)
NeedsCall ==
  /\ lastCall.op = "none"
  /\ lastCall.config = DEFAULT_CONFIG
  /\ \E r \in {needsNormalizationAt(lastCall.text, lastIndex)} :
        /\ lastCall' = [op |-> "needsNormalization", text |-> lastCall.text,
                        result |-> r.result]
        /\ lastIndex' = r.lastIndex
  /\ UNCHANGED <<storeVars, cycleVars, processorVars, filterVars, scriptVars>>

NormNext ==
  \/ NormalizeCall
  \/ NormalizeResultCall
  \/ NeedsCall

NormSpec == NormInit /\ [][NormNext]_vars

(***************************************************************************)
(* The normalizer called again and again in one loaded module:             *)
(* needsNormalization, normalizeText and getNormalizationStats in any      *)
(* order, sharing ZERO_WIDTH_REGEX.                                        *)
(***************************************************************************)
\* "测", "测 ", "测\t测", "测<ZWSP>测", "<ZWSP>测" and "测测<ZWSP>"
SeqTexts ==
  {<<27979>>, <<27979, 32>>, <<27979, 9, 27979>>, <<27979, 8203, 27979>>,
   <<8203, 27979>>, <<27979, 27979, 8203>>}

\* longest list handed to getNormalizationStats
MaxStatsLen == 3

StatsLists == UNION {[1..k -> SeqTexts] : k \in 0..MaxStatsLen}

SeqInit ==
  /\ text = [n \in Nodes |-> InitialText(n)]
  /\ attached = [n \in Nodes |-> TRUE]
  /\ config = [enabled |-> TRUE, userLevel |-> LevelA1]
  /\ now = 0
  /\ observing = FALSE
  /\ fingerprintMap = clearFingerprints(Nodes)
  /\ cache = <<>>
  /\ maxSize = DefaultMaxSize
  /\ isProcessing = FALSE
  /\ pendingRequest = NoCaller
  /\ apiCallInProgress = FALSE
  /\ pc = [c \in Callers |-> "idle"]
  /\ awaiting = [c \in Callers |-> NoCaller]
  /\ plan = [c \in Callers |-> NoCycle]
  /\ planned = NoPlanned
  /\ merged = NoMerged
  /\ outcome = "none"
  /\ cycleLog = NoLog
  /\ applied = NoApplied
  /\ lastCall = NoCall
  /\ lastIndex = 0
  /\ ScriptLoaded
  /\ FilterConstructed
  /\ cycles = 0
  /\ hostMoves = 0

\* needsNormalization(t)
SeqNeedsCall(t) ==
  /\ \E r \in {needsNormalizationAt(t, lastIndex)} :
        /\ lastCall' = [op |-> "needsNormalization", text |-> t, result |-> r.result]
        /\ lastIndex' = r.lastIndex
  /\ UNCHANGED <<storeVars, cycleVars, processorVars, filterVars, scriptVars>>

\* normalizeText(t)
SeqNormalizeCall(t) ==
  /\ lastCall' = [op |-> "normalizeText", text |-> t, result |-> normalizeText(t)]
  /\ lastIndex' = 0
  /\ UNCHANGED <<storeVars, cycleVars, processorVars, filterVars, scriptVars>>

\* getNormalizationStats(texts)
SeqStatsCall(texts) ==
  /\ \E r \in {getNormalizationStatsAt(texts, lastIndex)} :
        /\ lastCall' = [op |-> "getNormalizationStats", texts |-> texts,
                        result |-> [total |-> r.total,
                                    needsNormalization |-> r.needsNormalization,
                                    percentage |-> r.percentage]]
        /\ lastIndex' = r.lastIndex
  /\ UNCHANGED <<storeVars, cycleVars, processorVars, filterVars, scriptVars>>

SeqNext ==
  \/ \E t \in SeqTexts : SeqNeedsCall(t)
  \/ \E t \in SeqTexts : SeqNormalizeCall(t)
  \/ \E texts \in StatsLists : SeqStatsCall(texts)

SeqSpec == SeqInit /\ [][SeqNext]_vars

(***************************************************************************)
(* hashText called on texts of UTF-16 code units.                          *)
(***************************************************************************)
\* code units of the texts: NUL, 'a', U+00FF, "测", "试" and U+FFFF
HashAlphabet == {0, 97, 255, 27979, 35797, 65535}

\* longest text hashed
MaxHashLen == 3

HashTexts == UNION {[1..k -> HashAlphabet] : k \in 0..MaxHashLen}

HashInit ==
  /\ text = [n \in Nodes |-> InitialText(n)]
  /\ attached = [n \in Nodes |-> TRUE]
  /\ config = [enabled |-> TRUE, userLevel |-> LevelA1]
  /\ now = 0
  /\ observing = FALSE
  /\ fingerprintMap = clearFingerprints(Nodes)
  /\ cache = <<>>
  /\ maxSize = DefaultMaxSize
  /\ isProcessing = FALSE
  /\ pendingRequest = NoCaller
  /\ apiCallInProgress = FALSE
  /\ pc = [c \in Callers |-> "idle"]
  /\ awaiting = [c \in Callers |-> NoCaller]
  /\ plan = [c \in Callers |-> NoCycle]
  /\ planned = NoPlanned
  /\ merged = NoMerged
  /\ outcome = "none"
  /\ cycleLog = NoLog
  /\ applied = NoApplied
  /\ lastCall \in [op : {"none"}, text : HashTexts]
  /\ lastIndex = 0
  /\ ScriptLoaded
  /\ FilterConstructed
  /\ cycles = 0
  /\ hostMoves = 0

\* hashText(text): the string returned
HashCall ==
  /\ lastCall.op = "none"
  /\ lastCall' = [op |-> "hashText", text |-> lastCall.text,
                  result |-> HexString(hashText(lastCall.text))]
  /\ UNCHANGED <<storeVars, cycleVars, processorVars, lastIndex, filterVars, scriptVars>>

\* hashText(text) called again on the same text
HashAgainCall ==
  /\ lastCall.op = "hashText"
  /\ lastCall' = [op |-> "hashTwice", text |-> lastCall.text, first |-> lastCall.result,
                  result |-> HexString(hashText(lastCall.text))]
  /\ UNCHANGED <<storeVars, cycleVars, processorVars, lastIndex, filterVars, scriptVars>>

HashNext == HashCall \/ HashAgainCall

HashSpec == HashInit /\ [][HashNext]_vars

(***************************************************************************)
(* 32-bit FNV-1a as its definition gives it, on numbers of 32 binary       *)
(* digits (digit k of the number at index k + 1), the multiplication by    *)
(* 0x01000193 = 2^24 + 2^8 + 2^7 + 2^4 + 2^1 + 2^0 done by shifts and      *)
(* additions modulo 2^32.                                                  *)
(***************************************************************************)
Pow2(k) == IF k = 0 THEN 1 ELSE IF k = 1 THEN 2 ELSE IF k = 2 THEN 4 ELSE 8

\* the digits of 0x811c9dc5
Fnv1aOffsetDigits == <<8, 1, 1, 12, 9, 13, 12, 5>>

Fnv1aOffsetBits ==
  [i \in 1..32 |-> (Fnv1aOffsetDigits[8 - ((i - 1) \div 4)] \div Pow2((i - 1) % 4)) % 2]

RECURSIVE BitOfUnit(_, _)
BitOfUnit(c, k) == IF k = 0 THEN c % 2 ELSE BitOfUnit(c \div 2, k - 1)

XorUnit(b, c) ==
  [i \in 1..32 |-> IF i <= 16 THEN (b[i] + BitOfUnit(c, i - 1)) % 2 ELSE b[i]]

ShiftLeft(b, k) == [i \in 1..32 |-> IF i > k THEN b[i - k] ELSE 0]

RECURSIVE AddFrom(_, _, _, _)
AddFrom(a, b, i, carry) ==
  IF i > 32 THEN <<>>
  ELSE <<(a[i] + b[i] + carry) % 2>> \o AddFrom(a, b, i + 1, (a[i] + b[i] + carry) \div 2)

Add32(a, b) == AddFrom(a, b, 1, 0)

TimesFnvPrime(b) ==
  Add32(Add32(Add32(b, ShiftLeft(b, 1)), Add32(ShiftLeft(b, 4), ShiftLeft(b, 7))),
        Add32(ShiftLeft(b, 8), ShiftLeft(b, 24)))

RECURSIVE Fnv1aBits(_, _)
Fnv1aBits(b, s) ==
  IF s = <<>> THEN b ELSE Fnv1aBits(TimesFnvPrime(XorUnit(b, Head(s))), Tail(s))

\* '0'..'9' and 'a'..'f'
LowerHexChars ==
  <<48, 49, 50, 51, 52, 53, 54, 55, 56, 57, 97, 98, 99, 100, 101, 102>>

\* the number as 8 lowercase hex digits, most significant first
Hex8OfBits(b) ==
  [j \in 1..8 |->
     LowerHexChars[1 + b[4 * (8 - j) + 1] + 2 * b[4 * (8 - j) + 2]
                     + 4 * b[4 * (8 - j) + 3] + 8 * b[4 * (8 - j) + 4]]]

Fnv1aHex(s) == Hex8OfBits(Fnv1aBits(Fnv1aOffsetBits, s))

(***************************************************************************)
(* The ContainerFilter called directly: eligibility checks, configuration  *)
(* updates and selector additions and removals in any order; in            *)
(* FilterHostSpec the page also sets and removes aria-hidden="true".       *)
(***************************************************************************)
\* longest selector list addBlacklistSelector / addWhitelistSelector is called on
MaxSelectors == 2

\* the Partial<FilterConfig> arguments of updateConfig
UpdatePayloads ==
  {[useBlacklist |-> FALSE], [useBlacklist |-> TRUE],
   [useWhitelist |-> TRUE], [useWhitelist |-> FALSE],
   [blacklistSelectors |-> <<SelInvalid, SelP>>],
   [useWhitelist |-> TRUE, whitelistSelectors |-> <<SelNav, SelP>>]}

\* the selectors added and removed one at a time
EditedSelectors == {SelHidden, SelP}

\* the elements whose aria-hidden attribute the page changes
HostElements == {"p1", "d1"}

FilterState ==
  [config |-> filterConfig, blacklistCache |-> blacklistCache,
   whitelistCache |-> whitelistCache]

SetFilter(filter) ==
  /\ filterConfig' = filter.config
  /\ blacklistCache' = filter.blacklistCache
  /\ whitelistCache' = filter.whitelistCache

\* a call changing the configuration: what it did to the filter, and the
\* memoized rejections it dropped
Configure(filter) ==
  /\ SetFilter(filter)
  /\ lastCall' = [op |-> "configure",
                  dropped |-> IF filter # FilterState THEN blacklistCache ELSE {}]
  /\ UNCHANGED <<storeVars, cycleVars, processorVars, lastIndex, scriptVars, attributes>>

FilterInit ==
  /\ text = [n \in Nodes |-> InitialText(n)]
  /\ attached = [n \in Nodes |-> TRUE]
  /\ config = [enabled |-> TRUE, userLevel |-> LevelA1]
  /\ now = 0
  /\ observing = FALSE
  /\ fingerprintMap = clearFingerprints(Nodes)
  /\ cache = <<>>
  /\ maxSize = DefaultMaxSize
  /\ isProcessing = FALSE
  /\ pendingRequest = NoCaller
  /\ apiCallInProgress = FALSE
  /\ pc = [c \in Callers |-> "idle"]
  /\ awaiting = [c \in Callers |-> NoCaller]
  /\ plan = [c \in Callers |-> NoCycle]
  /\ planned = NoPlanned
  /\ merged = NoMerged
  /\ outcome = "none"
  /\ cycleLog = NoLog
  /\ applied = NoApplied
  /\ lastCall = NoCall
  /\ lastIndex = 0
  /\ ScriptLoaded
  /\ FilterConstructed
  /\ cycles = 0
  /\ hostMoves = 0

\* shouldProcessElement(element)
ShouldProcessCall(element) ==
  /\ \E r \in {shouldProcessElement(FilterState, attributes, element)} :
        /\ SetFilter(r.filter)
        /\ lastCall' = [op |-> "shouldProcessElement", element |-> element,
                        result |-> r.result,
                        dropped |-> IF lastCall.op = "configure"
                                      THEN lastCall.dropped ELSE {}]
  /\ UNCHANGED <<storeVars, cycleVars, processorVars, lastIndex, scriptVars, attributes>>

\* shouldProcessElementRecursive(element)
RecursiveCall(element) ==
  /\ \E r \in {shouldProcessElementRecursive(FilterState, attributes, element)} :
        /\ SetFilter(r.filter)
        /\ lastCall' = [op |-> "shouldProcessElementRecursive", element |-> element,
                        result |-> r.result]
  /\ UNCHANGED <<storeVars, cycleVars, processorVars, lastIndex, scriptVars, attributes>>

UpdateConfigCall(partial) == Configure(updateConfig(FilterState, partial))

AddBlacklistCall(selector) ==
  /\ Len(filterConfig.blacklistSelectors) < MaxSelectors
  /\ Configure(addBlacklistSelector(FilterState, selector))

AddWhitelistCall(selector) ==
  /\ Len(filterConfig.whitelistSelectors) < MaxSelectors
  /\ Configure(addWhitelistSelector(FilterState, selector))

RemoveBlacklistCall(selector) == Configure(removeBlacklistSelector(FilterState, selector))

RemoveWhitelistCall(selector) == Configure(removeWhitelistSelector(FilterState, selector))

\* the page sets or removes aria-hidden="true" on an element
HostSetAttribute(element, hidden) ==
  /\ attributes' = [attributes EXCEPT ![element] = hidden]
  /\ lastCall' = [op |-> "host"]
  /\ UNCHANGED <<storeVars, cycleVars, processorVars, lastIndex, scriptVars, filterConfig,
                 blacklistCache, whitelistCache>>

FilterNext ==
  \/ \E element \in Elements : ShouldProcessCall(element)
  \/ \E element \in Elements : RecursiveCall(element)
  \/ \E partial \in UpdatePayloads : UpdateConfigCall(partial)
  \/ \E selector \in EditedSelectors : AddBlacklistCall(selector)
  \/ \E selector \in EditedSelectors : AddWhitelistCall(selector)
  \/ \E selector \in EditedSelectors : RemoveBlacklistCall(selector)
  \/ \E selector \in EditedSelectors : RemoveWhitelistCall(selector)

FilterSpec == FilterInit /\ [][FilterNext]_vars

FilterHostNext ==
  \/ FilterNext
  \/ \E element \in HostElements, hidden \in BOOLEAN : HostSetAttribute(element, hidden)

FilterHostSpec == FilterInit /\ [][FilterHostNext]_vars

(***************************************************************************)
(* Several ContainerFilter instances in one loaded module. None is given   *)
(* its own blacklistSelectors, so the blacklistSelectors of each of them   *)
(* is the module-level array; filterConfig, blacklistCache and             *)
(* whitelistCache are those of one of the filters, the observed one.       *)
(***************************************************************************)
\* largest length the module-level array reaches
MaxArrayLen == 5

\* the Partial<FilterConfig> arguments of the constructor and of updateConfig
ExcludePayloads ==
  {<<>>, [excludeButtons |-> FALSE], [excludeNavigation |-> FALSE],
   [excludeButtons |-> TRUE], [excludeButtons |-> FALSE, excludeNavigation |-> FALSE]}

ConstructedElements == {ButtonElement, "n1", "d1"}

\* the module-level array after the filters constructed before the observed one
ArraysBefore ==
  {DEFAULT_BLACKLIST_SELECTORS}
    \cup {ContainerFilterConstructor(DEFAULT_BLACKLIST_SELECTORS, partial)
           .config.blacklistSelectors : partial \in ExcludePayloads}

ConstructInit ==
  /\ text = [n \in Nodes |-> InitialText(n)]
  /\ attached = [n \in Nodes |-> TRUE]
  /\ config = [enabled |-> TRUE, userLevel |-> LevelA1]
  /\ now = 0
  /\ observing = FALSE
  /\ fingerprintMap = clearFingerprints(Nodes)
  /\ cache = <<>>
  /\ maxSize = DefaultMaxSize
  /\ isProcessing = FALSE
  /\ pendingRequest = NoCaller
  /\ apiCallInProgress = FALSE
  /\ pc = [c \in Callers |-> "idle"]
  /\ awaiting = [c \in Callers |-> NoCaller]
  /\ plan = [c \in Callers |-> NoCycle]
  /\ planned = NoPlanned
  /\ merged = NoMerged
  /\ outcome = "none"
  /\ cycleLog = NoLog
  /\ applied = NoApplied
  /\ lastCall = NoCall
  /\ lastIndex = 0
  /\ ScriptLoaded
  /\ \E before \in ArraysBefore, partial \in ExcludePayloads :
        filterConfig = ContainerFilterConstructor(before, partial).config
  /\ blacklistCache = {}
  /\ whitelistCache = {}
  /\ attributes = [e \in Elements \cup {ButtonElement} |-> FALSE]
  /\ cycles = 0
  /\ hostMoves = 0

\* new ContainerFilter(partial) for another filter: its pushes land in the array
\* the observed filter's configuration refers to; no cache of the observed
\* filter is cleared
ConstructAnother(partial) ==
  /\ Len(filterConfig.blacklistSelectors) + 2 <= MaxArrayLen
  /\ filterConfig' =
       [filterConfig EXCEPT !.blacklistSelectors =
          ContainerFilterConstructor(@, partial).config.blacklistSelectors]
  /\ lastCall' = [op |-> "new", partial |-> partial]
  /\ UNCHANGED <<storeVars, cycleVars, processorVars, lastIndex, scriptVars, blacklistCache,
                 whitelistCache, attributes>>

ConstructNext ==
  \/ \E partial \in ExcludePayloads : ConstructAnother(partial)
  \/ \E partial \in ExcludePayloads : UpdateConfigCall(partial)
  \/ \E element \in ConstructedElements : ShouldProcessCall(element)

ConstructSpec == ConstructInit /\ [][ConstructNext]_vars

(***************************************************************************)
(* The throttled handler of ScrollObserver: throttle(func, delay,          *)
(* {leading: false, trailing: true}), called by the window's scroll        *)
(* events, with its timer. The clock counts ticks; a timer that is due     *)
(* runs before the clock moves on and before the next scroll event.        *)
(***************************************************************************)
\* ScrollObserver's throttleDelay, in ticks
ThrottleDelay == 2

\* the last reading of the clock
MaxThrottleClock == 12

ScrollObserverOptions == [leading |-> FALSE, trailing |-> TRUE]

Max(a, b) == IF a >= b THEN a ELSE b

Closure == [timeoutId |-> timeoutId, lastExecTime |-> lastExecTime, lastArgs |-> lastArgs]

\* the function throttle returns, called with args when Date.now() reads
\* currentTime; called says whether func ran
throttled(closure, delay, options, args, currentTime) ==
  LET timeSinceLastExec == currentTime - closure.lastExecTime
  IN IF options.leading /\ timeSinceLastExec > delay
       THEN [timeoutId |-> Null, lastExecTime |-> currentTime, lastArgs |-> Null,
             called |-> TRUE]
       ELSE [timeoutId |-> IF options.trailing
                             THEN <<currentTime + Max(0, delay - timeSinceLastExec)>>
                             ELSE Null,
             lastExecTime |-> closure.lastExecTime, lastArgs |-> args,
             called |-> FALSE]

\* the callback given to setTimeout
timeoutCallback(closure, currentTime) ==
  [timeoutId |-> Null, lastExecTime |-> currentTime, lastArgs |-> Null,
   called |-> TRUE]

TimerDue == timeoutId # Null /\ timeoutId[1] <= now

SetClosure(closure) ==
  /\ timeoutId' = closure.timeoutId
  /\ lastExecTime' = closure.lastExecTime
  /\ lastArgs' = closure.lastArgs

ThrottleInit ==
  /\ text = [n \in Nodes |-> InitialText(n)]
  /\ attached = [n \in Nodes |-> TRUE]
  /\ config = [enabled |-> TRUE, userLevel |-> LevelA1]
  /\ now = ThrottleDelay + 1
  /\ observing = FALSE
  /\ fingerprintMap = clearFingerprints(Nodes)
  /\ cache = <<>>
  /\ maxSize = DefaultMaxSize
  /\ isProcessing = FALSE
  /\ pendingRequest = NoCaller
  /\ apiCallInProgress = FALSE
  /\ pc = [c \in Callers |-> "idle"]
  /\ awaiting = [c \in Callers |-> NoCaller]
  /\ plan = [c \in Callers |-> NoCycle]
  /\ planned = NoPlanned
  /\ merged = NoMerged
  /\ outcome = "none"
  /\ cycleLog = NoLog
  /\ applied = NoApplied
  /\ lastCall = NoCall
  /\ lastIndex = 0
  /\ ScriptLoaded
  /\ FilterConstructed
  /\ cycles = 0
  /\ hostMoves = 0

\* a scroll event calls the throttled handler, at most once in a tick; the
\* history records when, and the 'scroll' emissions since
ScrollEvent ==
  /\ ~TimerDue
  /\ lastCall.op = "scroll" => lastCall.at < now
  /\ \E r \in {throttled(Closure, ThrottleDelay, ScrollObserverOptions, <<"scroll">>, now)} :
        /\ SetClosure(r)
        /\ lastCall' = [op |-> "scroll", at |-> now,
                        emitted |-> IF r.called THEN 1 ELSE 0]
  /\ UNCHANGED <<storeVars, cycleVars, processorVars, lastIndex, filterVars, contentVars>>

\* the timer runs its callback, which emits 'scroll'
TimeoutFires ==
  /\ TimerDue
  /\ SetClosure(timeoutCallback(Closure, now))
  /\ lastCall' = [lastCall EXCEPT !.emitted = @ + 1]
  /\ UNCHANGED <<storeVars, cycleVars, processorVars, lastIndex, filterVars, contentVars>>

ThrottleTick ==
  /\ ~TimerDue
  /\ now < MaxThrottleClock
  /\ now' = now + 1
  /\ UNCHANGED <<text, attached, config, fingerprintMap, cache, maxSize, cycleVars,
                 processorVars, lastCall, lastIndex, filterVars, scriptVars>>

ThrottleNext == ScrollEvent \/ TimeoutFires \/ ThrottleTick

ThrottleSpec == ThrottleInit /\ [][ThrottleNext]_vars

(***************************************************************************)
(* The content script: initializeExtension, called when the script loads,  *)
(* by the visibilitychange listener and by the auth watcher, with its two  *)
(* awaits, and cleanup, called by the visibilitychange listener and by the *)
(* logout watcher. Of TextProcessor.start and stop only what they do to    *)
(* the observers is kept; the stored configuration is enabled.             *)
(***************************************************************************)
\* the script has run to its end: initializeExtension() was called and stands at
\* its first await, storageService.isLoggedIn()
ContentInit ==
  /\ text = [n \in Nodes |-> InitialText(n)]
  /\ attached = [n \in Nodes |-> TRUE]
  /\ config = [enabled |-> TRUE, userLevel |-> LevelA1]
  /\ now = 0
  /\ observing = FALSE
  /\ fingerprintMap = clearFingerprints(Nodes)
  /\ cache = <<>>
  /\ maxSize = DefaultMaxSize
  /\ isProcessing = FALSE
  /\ pendingRequest = NoCaller
  /\ apiCallInProgress = FALSE
  /\ pc = [c \in Callers |-> "idle"]
  /\ awaiting = [c \in Callers |-> NoCaller]
  /\ plan = [c \in Callers |-> NoCycle]
  /\ planned = NoPlanned
  /\ merged = NoMerged
  /\ outcome = "none"
  /\ cycleLog = NoLog
  /\ applied = NoApplied
  /\ lastCall = NoCall
  /\ lastIndex = 0
  /\ timeoutId = Null
  /\ lastExecTime = 0
  /\ lastArgs = Null
  /\ textProcessor = Null
  /\ isInitialized = FALSE
  /\ initializing =
       [i \in Invocations |->
          IF i = "load" THEN [pc |-> "awaitLoggedIn", processor |-> Null]
          ELSE NotInitializing]
  /\ processors = [p \in ProcessorIds |-> "none"]
  /\ visibilityState = "visible"
  /\ FilterConstructed
  /\ cycles = 0
  /\ hostMoves = 0

ContentFrame ==
  UNCHANGED <<storeVars, cycleVars, processorVars, lastCall, lastIndex, filterVars,
              throttleVars>>

\* initializeExtension() up to its first await: a call that finds isInitialized
\* set returns at once
initializeExtension(i) ==
  /\ initializing' =
       [initializing EXCEPT ![i] = IF isInitialized THEN NotInitializing
                                   ELSE [pc |-> "awaitLoggedIn", processor |-> Null]]
  /\ UNCHANGED <<textProcessor, isInitialized, processors>>

\* cleanup()
cleanup ==
  /\ processors' = IF textProcessor # Null
                     THEN [processors EXCEPT ![textProcessor[1]] = "stopped"]
                     ELSE processors
  /\ textProcessor' = Null
  /\ isInitialized' = FALSE
  /\ UNCHANGED initializing

\* the visibilitychange listener, the page becoming visible
VisibleEvent ==
  /\ visibilityState = "hidden"
  /\ initializing["visible"].pc = "idle"
  /\ visibilityState' = "visible"
  /\ IF ~isInitialized THEN initializeExtension("visible")
     ELSE UNCHANGED <<textProcessor, isInitialized, initializing, processors>>
  /\ ContentFrame

\* the visibilitychange listener, the page becoming hidden
HiddenEvent ==
  /\ visibilityState = "visible"
  /\ visibilityState' = "hidden"
  /\ cleanup
  /\ ContentFrame

\* the logout watcher
LogoutEvent ==
  /\ isInitialized
  /\ cleanup
  /\ UNCHANGED visibilityState
  /\ ContentFrame

\* the auth watcher's callback on a login: unsubscribe(), initializeExtension()
AuthWatcherFires ==
  /\ initializing["auth"].pc = "watching"
  /\ initializeExtension("auth")
  /\ UNCHANGED visibilityState
  /\ ContentFrame

\* isLoggedIn() resolves: not logged in, setupAuthWatcher() and return;
\* logged in, textProcessor = new TextProcessor(...) and textProcessor.start()
\* up to its await of getConfig()
LoggedInResolves(i, isLoggedIn) ==
  /\ initializing[i].pc = "awaitLoggedIn"
  /\ IF ~isLoggedIn
       THEN /\ initializing' =
                 [initializing EXCEPT
                    ![i] = NotInitializing,
                    !["auth"] = IF @.pc = "idle"
                                  THEN [pc |-> "watching", processor |-> Null]
                                  ELSE @]
            /\ UNCHANGED <<textProcessor, isInitialized, processors>>
       ELSE \E p \in ProcessorIds :
              /\ processors[p] = "none"
              /\ textProcessor' = <<p>>
              /\ processors' = [processors EXCEPT ![p] = "starting"]
              /\ initializing' = [initializing EXCEPT
                                    ![i] = [pc |-> "awaitStart", processor |-> <<p>>]]
              /\ UNCHANGED isInitialized
  /\ UNCHANGED visibilityState
  /\ ContentFrame

\* getConfig() resolves inside start(): the observers are started and start()
\* awaits processVisibleText()
StartConfigResolves(i) ==
  /\ initializing[i].pc = "awaitStart"
  /\ processors' = [processors EXCEPT ![initializing[i].processor[1]] = "observing"]
  /\ initializing' = [initializing EXCEPT ![i].pc = "awaitCycle"]
  /\ UNCHANGED <<textProcessor, isInitialized, visibilityState>>
  /\ ContentFrame

\* start() resolves: isInitialized = true
StartReturns(i) ==
  /\ initializing[i].pc = "awaitCycle"
  /\ isInitialized' = TRUE
  /\ initializing' = [initializing EXCEPT ![i] = NotInitializing]
  /\ UNCHANGED <<textProcessor, processors, visibilityState>>
  /\ ContentFrame

ContentNext ==
  \/ VisibleEvent
  \/ HiddenEvent
  \/ LogoutEvent
  \/ AuthWatcherFires
  \/ \E i \in Invocations, isLoggedIn \in BOOLEAN : LoggedInResolves(i, isLoggedIn)
  \/ \E i \in Invocations : StartConfigResolves(i)
  \/ \E i \in Invocations : StartReturns(i)

ContentSpec == ContentInit /\ [][ContentNext]_vars

\* the element and its ancestors below document.body
RECURSIVE ChainBelowBody(_)
ChainBelowBody(element) ==
  IF element = NoElement \/ element = Body THEN {}
  ELSE {element} \cup ChainBelowBody(parentElement[element])

\* the decision for an element computed from the configuration alone
Decision(current, hidden, element) ==
  IF current.useBlacklist /\ MatchesAny(current.blacklistSelectors, element, hidden)
    THEN FALSE
  ELSE IF current.useWhitelist
    THEN MatchesAny(current.whitelistSelectors, element, hidden)
  ELSE TRUE

(***************************************************************************)
(* Properties.                                                             *)
(***************************************************************************)
\* the callers whose apiService.processTexts dispatch is outstanding
Outstanding == {c \in Callers : pc[c] = "awaitApi"}

\* the step in which caller c's cycle returns from createTranslationPlan
PlanStep(c) == pc[c] = "awaitConfig" /\ pc'[c] # "awaitConfig" /\ outcome' # "empty"

\* the step in which a response of the rewriting service arrives
ResponseStep ==
  \E c \in Callers : pc[c] = "awaitApi" /\ outcome' \in {"applied", "mismatch"}

\* the key under which the cache holds the entry of (textHash, userLevel)
HashKey(textHash, userLevel) == generateKey(HexString(textHash), userLevel)

\* the cache c0 holds a non-empty value for (textHash, userLevel)
HasCached(c0, textHash, userLevel) ==
  \E i \in 1..Len(c0) : c0[i].key = HashKey(textHash, userLevel) /\ Len(c0[i].value) > 0

\* the value the cache c0 holds for (textHash, userLevel)
CachedValue(c0, textHash, userLevel) ==
  c0[CHOOSE i \in 1..Len(c0) : c0[i].key = HashKey(textHash, userLevel)].value

\* the value hashToTranslation holds for a hash, <<>> when it holds none
Mapped(hashToTranslation, hash) ==
  IF HashIndex(hashToTranslation, hash) = 0 THEN <<>>
  ELSE hashToTranslation[HashIndex(hashToTranslation, hash)].translation

\* an entity occurs twice in the list handed to the planner
RepeatedEntity ==
  \E i \in 1..Len(planned.textNodes) : \E j \in 1..Len(planned.textNodes) :
    i # j /\ planned.textNodes[i].node = planned.textNodes[j].node

\* C1: for any interleaving of processVisibleText calls on one TextProcessor,
\* at most one apiService.processTexts dispatch is outstanding at any time.
C1_SingleDispatch == Cardinality(Outstanding) <= 1

\* a dispatch is outstanding after another caller called in and was coalesced
\* onto the same cycle
C1_Witness ==
  \E c \in Callers : \E d \in Callers :
    c # d /\ pc[c] = "awaitApi" /\ pc[d] = "awaitPending" /\ apiCallInProgress

\* C2: for every Plan returned by createTranslationPlan, over any input list
\* (repeated entities included) and any state of the fingerprint store and cache,
\* stats.total == stats.fingerprintFiltered + toApplyFromCache.length + toSend.length.
C2_TotalIsSum ==
  LET p == planned.plan
  IN p.stats.total = p.stats.fingerprintFiltered + Len(p.toApplyFromCache) + Len(p.toSend)

\* a plan over three entities, one of them repeated: one filtered by its
\* fingerprint, the others split between cache and dispatch or both on one side
C2_Witness ==
  LET p == planned.plan
  IN /\ p.stats.total = 3
     /\ p.stats.fingerprintFiltered = 1
     /\ Len(p.toApplyFromCache) + Len(p.toSend) = 2
     /\ RepeatedEntity

\* C3: for every Plan returned by createTranslationPlan,
\* uniqueTexts.length == textHashMap.size == stats.unique, also when two different
\* normalized texts of the batch share the same hash.
C3_UniqueCounts ==
  LET p == planned.plan
  IN /\ Len(p.uniqueTexts) = Len(p.textHashMap)
     /\ Len(p.uniqueTexts) = p.stats.unique

\* a plan whose batch holds two different normalized texts with one hash
C3_Witness ==
  LET p == planned.plan
  IN \E i \in 1..Len(p.toSend) : \E j \in 1..Len(p.toSend) :
       /\ p.toSend[i].normalizedText # p.toSend[j].normalizedText
       /\ p.toSend[i].textHash = p.toSend[j].textHash

\* C4: every entity passed to createTranslationPlan for which isProcessed(entity,
\* level, mode) was true just before the cycle, for the mode it was last marked
\* with, is counted in stats.fingerprintFiltered and is in neither toSend nor
\* toApplyFromCache.
C4_ProcessedIsFiltered ==
  [][\A c \in Callers : PlanStep(c) =>
       LET p == planned'.plan
           userLevel == planned'.userLevel
           given == {planned'.textNodes[i].node : i \in 1..Len(planned'.textNodes)}
           processed == {n \in given :
                           /\ fingerprintMap[n].has
                           /\ isProcessed(fingerprintMap, text, n, userLevel,
                                          fingerprintMap[n].mode)}
       IN /\ Cardinality(processed) <= p.stats.fingerprintFiltered
          /\ processed \cap (NodesOf(p.toSend) \cup ToApplyNodes(p)) = {}]_vars

\* the entities of a set as the Extractor would hand them over
RECURSIVE textNodesOf(_, _)
textNodesOf(order, nodes) ==
  IF order = <<>> THEN <<>>
  ELSE IF Head(order) \in nodes
    THEN <<[node |-> Head(order), text |-> text[Head(order)]]>> \o textNodesOf(Tail(order), nodes)
    ELSE textNodesOf(Tail(order), nodes)

\* C5: after a cycle in which the apply step rewrote and marked entities (mode
\* "translated"), a second createTranslationPlan at the same level over the
\* identical entities, unchanged since the apply, counts all of them in
\* fingerprintFiltered and produces empty toApplyFromCache, toSend and uniqueTexts.
C5_SecondPlanNoWork ==
  applied.nodes # {} =>
    LET textNodes == textNodesOf(NodeOrder, applied.nodes)
        r == createTranslationPlan(textNodes, cache, applied.userLevel,
                                   fingerprintMap, text, now)
    IN /\ r.stats.fingerprintFiltered = Len(textNodes)
       /\ r.toApplyFromCache = <<>>
       /\ r.toSend = <<>>
       /\ r.uniqueTexts = <<>>

\* C6: in createTranslationPlan every entity that survives the fingerprint filter
\* lands in exactly one of toApplyFromCache and toSend: in toApplyFromCache, paired
\* with the cached value, iff the cache holds a non-empty value for (its textHash,
\* level) at plan time, otherwise in toSend; stats.cached == toApplyFromCache.length
\* and no text of uniqueTexts has a cached value for that level.
C6_CacheSplit ==
  LET p == planned.plan
      userLevel == planned.userLevel
      c0 == planned.cache
      given == [i \in 1..Len(planned.textNodes) |-> planned.textNodes[i].node]
      hashOf(n) == hashText(normalizeText(NodeDataOf(planned.textNodes, n).text))
      ofNode(c) == c.textHash = hashOf(c.node)
  IN /\ \A survivors \in {filterUnprocessed(fingerprintMap, text, given, userLevel,
                                              "original")} :
          /\ Len(p.toApplyFromCache) + Len(p.toSend) = Len(survivors)
          /\ \A i \in 1..Len(survivors) :
               IF HasCached(c0, hashOf(survivors[i]), userLevel)
                 THEN survivors[i] \in ToApplyNodes(p)
                 ELSE survivors[i] \in NodesOf(p.toSend)
     /\ ToApplyNodes(p) \cap NodesOf(p.toSend) = {}
     /\ \A i \in 1..Len(p.toApplyFromCache) :
          LET e == p.toApplyFromCache[i]
          IN /\ ofNode(e.candidate)
             /\ HasCached(c0, e.candidate.textHash, userLevel)
             /\ e.translated = CachedValue(c0, e.candidate.textHash, userLevel)
     /\ \A i \in 1..Len(p.toSend) :
          /\ ofNode(p.toSend[i])
          /\ ~HasCached(c0, p.toSend[i].textHash, userLevel)
     /\ p.stats.cached = Len(p.toApplyFromCache)
     /\ \A k \in 1..Len(p.uniqueTexts) :
          ~HasCached(c0, hashText(p.uniqueTexts[k]), userLevel)

\* a plan with one entity served from the cache and one sent although the cache
\* holds an entry, with an empty value, for its hash and level
C6_Witness ==
  LET p == planned.plan
  IN /\ Len(p.toApplyFromCache) = 1
     /\ Len(p.toSend) = 1
     /\ \E i \in 1..Len(planned.cache) :
          /\ planned.cache[i].key = HashKey(p.toSend[1].textHash, planned.userLevel)
          /\ planned.cache[i].value = <<>>

\* C7: uniqueTexts holds exactly one entry per distinct textHash among toSend, the
\* normalizedText of the first Candidate with that hash, in first-seen order;
\* candidates whose raw texts normalize to the same string contribute a single
\* outgoing text; stats.batchDedupSaved == toSend.length - uniqueTexts.length >= 0.
C7_FirstSeenUnique ==
  LET p == planned.plan
      firstSeen(i) == \A j \in 1..(i - 1) : p.toSend[j].textHash # p.toSend[i].textHash
      firsts == SelectSeq([i \in 1..Len(p.toSend) |-> i], firstSeen)
  IN /\ Len(p.uniqueTexts) = Len(firsts)
     /\ \A k \in 1..Len(firsts) : p.uniqueTexts[k] = p.toSend[firsts[k]].normalizedText
     /\ \A i \in 1..Len(p.toSend) :
          Cardinality({k \in 1..Len(p.uniqueTexts) :
                         p.uniqueTexts[k] = p.toSend[i].normalizedText}) <= 1
     /\ p.stats.batchDedupSaved = Len(p.toSend) - Len(p.uniqueTexts)
     /\ p.stats.batchDedupSaved >= 0

\* two entities with different raw texts and one normalized text, sent as one text
C7_Witness ==
  LET p == planned.plan
  IN /\ Len(p.toSend) = 2
     /\ p.toSend[1].rawText # p.toSend[2].rawText
     /\ p.toSend[1].normalizedText = p.toSend[2].normalizedText
     /\ Len(p.uniqueTexts) = 1
     /\ p.stats.batchDedupSaved = 1

\* C8 as stated: given results aligned with plan.uniqueTexts, mergeApiResults maps
\* the hash of every Candidate of plan.toSend to the result at the position of
\* that Candidate's normalized text in uniqueTexts whenever that result is
\* non-empty, and no Candidate receives the result of a different text.
C8_OwnResultOnly ==
  (merged.arrived /\ ~merged.threw) =>
    LET p == merged.plan
        h == merged.hashToTranslation
    IN \A i \in 1..Len(p.toSend) :
         LET c == p.toSend[i]
             own == {k \in 1..Len(p.uniqueTexts) : p.uniqueTexts[k] = c.normalizedText}
         IN /\ \A k \in own :
                 Len(merged.results[k]) > 0 => Mapped(h, c.textHash) = merged.results[k]
            /\ Mapped(h, c.textHash) # <<>> =>
                 \E k \in own : Mapped(h, c.textHash) = merged.results[k]

\* C8, amended: mergeApiResults maps the hash of every Candidate of plan.toSend to
\* the result at the position, in uniqueTexts, of the first-seen normalized text
\* with that hash when that result is non-empty, and to nothing when it is empty;
\* a Candidate whose normalized text is in uniqueTexts gets the result at its own
\* position.
C8_ResultOfFirstSeenHash ==
  (merged.arrived /\ ~merged.threw) =>
    LET p == merged.plan
        h == merged.hashToTranslation
    IN \A i \in 1..Len(p.toSend) :
         LET c == p.toSend[i]
             sameHash == {k \in 1..Len(p.uniqueTexts) :
                            hashText(p.uniqueTexts[k]) = c.textHash}
         IN /\ Cardinality(sameHash) = 1
            /\ \A k \in sameHash :
                 /\ Mapped(h, c.textHash) = merged.results[k]
                 /\ \A j \in 1..i :
                      (/\ p.toSend[j].textHash = c.textHash
                       /\ \A l \in 1..(j - 1) : p.toSend[l].textHash # c.textHash)
                        => p.uniqueTexts[k] = p.toSend[j].normalizedText
            /\ \A k \in 1..Len(p.uniqueTexts) :
                 p.uniqueTexts[k] = c.normalizedText =>
                   Mapped(h, c.textHash) = merged.results[k]

\* a response to two unique texts merged for three candidates, one of them a
\* duplicate collapsed by the batch deduplication
C8_Witness ==
  /\ merged.arrived
  /\ ~merged.threw
  /\ Len(merged.plan.toSend) = 3
  /\ Len(merged.plan.uniqueTexts) = 2
  /\ Len(merged.hashToTranslation) = 2

\* C9: if results.length != plan.uniqueTexts.length, mergeApiResults raises and
\* returns no map, and the cycle applies nothing of that response: no entity is
\* written or marked and no cache entry is written.
C9_MismatchAppliesNothing ==
  [][(ResponseStep /\ Len(merged'.results) # Len(merged'.plan.uniqueTexts)) =>
       /\ merged'.threw
       /\ merged'.hashToTranslation = <<>>
       /\ text' = text
       /\ fingerprintMap' = fingerprintMap
       /\ cache' = cache]_vars

\* a cycle ended by a response of length 1 to 2 unique texts
C9_Witness ==
  /\ merged.arrived
  /\ merged.threw
  /\ outcome = "mismatch"
  /\ Len(merged.plan.uniqueTexts) = 2
  /\ Len(merged.results) = 1

\* the last cycle failed hard: dispatch error or result length mismatch
Failed == outcome \in {"rejected", "mismatch"}

\* the caches hold the same keys, in the same order, with the same values
SameEntries(c1, c2) ==
  /\ Len(c1) = Len(c2)
  /\ \A i \in 1..Len(c1) : c1[i].key = c2[i].key /\ c1[i].value = c2[i].value

\* C10 as stated: a cycle that fails hard rewrites nothing and persists no partial
\* state: at its end every entity's text, every fingerprint association and every
\* cache entry is what it was when the cycle started.
C10_FailedCycleLeavesNothing ==
  Failed =>
    /\ cycleLog.written = {}
    /\ cycleLog.marked = {}
    /\ SameEntries(cache, cycleLog.startCache)

\* C10, amended: a cycle that fails hard writes and marks no entity of plan.toSend
\* and writes no cache entry: the entities it rewrote and marked are among those
\* served from the cache before the dispatch, and the cache holds the keys and
\* values it held when the cycle started.
C10_FailedCycleOnlyCacheHits ==
  Failed =>
    /\ cycleLog.written \subseteq cycleLog.cachedNodes
    /\ cycleLog.marked \subseteq cycleLog.cachedNodes
    /\ cycleLog.written \cap NodesOf(planned.plan.toSend) = {}
    /\ SameEntries(cache, cycleLog.startCache)

\* a failed cycle that rewrote an entity from the cache before its dispatch failed
C10_Witness ==
  /\ Failed
  /\ cycleLog.written # {}
  /\ planned.plan.toSend # <<>>

\* the elements of a sequence
Range(seq) == {seq[i] : i \in 1..Len(seq)}

\* the candidates of the last merged response whose unique text got the empty string
EmptyAnswered(m) ==
  IF ~m.arrived \/ m.threw THEN {}
  ELSE {cand \in Range(m.plan.toSend) :
          \E k \in 1..Len(m.plan.uniqueTexts) :
            m.plan.uniqueTexts[k] = cand.normalizedText /\ m.results[k] = <<>>}

\* a response step leaves the hash of an empty-answered text unmapped, its entities
\* unwritten and unmarked, and nothing cached for it
EmptyResultSkipped ==
  ResponseStep =>
    \A cand \in EmptyAnswered(merged') :
      /\ HashIndex(merged'.hashToTranslation, cand.textHash) = 0
      /\ text'[cand.node] = text[cand.node]
      /\ fingerprintMap'[cand.node] = fingerprintMap[cand.node]
      /\ \A i \in 1..Len(cache') : cache'[i].key # HashKey(cand.textHash, merged'.userLevel)

\* the empty-answered entities the next plan was given, unchanged
RetryCandidates ==
  {cand \in EmptyAnswered(merged) :
     /\ cand.node \in {planned'.textNodes[i].node : i \in 1..Len(planned'.textNodes)}
     /\ text[cand.node] = cand.rawText}

CachedApplyStep == outcome = "planned" /\ outcome' = "cached"
ResultApplyStep == outcome = "merged" /\ outcome' = "applied"

\* the entities a step marks
MarkedBy == {n \in Nodes : fingerprintMap'[n] # fingerprintMap[n]}

\* C12: neither applyTranslations nor applyCachedTranslations ever writes text to,
\* or records a fingerprint for, an entity that is detached at apply time; such an
\* entry is skipped and the remaining entries are still processed.
C12_DetachedNeverWritten ==
  [][(CachedApplyStep \/ ResultApplyStep) =>
       /\ \A n \in Nodes : ~attached[n] =>
            text'[n] = text[n] /\ fingerprintMap'[n] = fingerprintMap[n]
       /\ CachedApplyStep =>
            \A e \in Range(planned.plan.toApplyFromCache) :
              attached[e.candidate.node] =>
                /\ text'[e.candidate.node] = e.translated
                /\ e.candidate.node \in MarkedBy
       /\ ResultApplyStep =>
            \A cand \in Range(planned.plan.toSend) :
              (attached[cand.node] /\ Mapped(merged.hashToTranslation, cand.textHash) # <<>>)
                => /\ text'[cand.node] = Mapped(merged.hashToTranslation, cand.textHash)
                   /\ cand.node \in MarkedBy]_vars

\* applyTranslations has skipped a detached candidate that had a translation and
\* has written the candidate after it
C12_Witness ==
  /\ outcome = "applied"
  /\ Len(planned.plan.toSend) = 2
  /\ ~attached[planned.plan.toSend[1].node]
  /\ Mapped(merged.hashToTranslation, planned.plan.toSend[1].textHash) # <<>>
  /\ text[planned.plan.toSend[1].node] = planned.plan.toSend[1].rawText
  /\ cycleLog.written = {planned.plan.toSend[2].node}

\* C13: applyTranslations(candidates, hashToTranslation, level) returns exactly the
\* number of entities it wrote; each written entity's text equals the translation
\* mapped to its textHash and it is marked processed at the given level with mode
\* "translated"; candidates whose hash is absent or maps to an empty string are
\* left completely unchanged.
C13_ApplyCountsAndMarks ==
  [][ResultApplyStep =>
       /\ cycleLog'.returned = Cardinality(MarkedBy)
       /\ \A n \in Nodes : text'[n] # text[n] => n \in MarkedBy
       /\ \A cand \in Range(planned.plan.toSend) :
            IF cand.node \in MarkedBy
              THEN /\ Mapped(merged.hashToTranslation, cand.textHash) # <<>>
                   /\ text'[cand.node] = Mapped(merged.hashToTranslation, cand.textHash)
                   /\ fingerprintMap'[cand.node].userLevel = planned.userLevel
                   /\ fingerprintMap'[cand.node].mode = "translated"
                   /\ isProcessed(fingerprintMap', text', cand.node, planned.userLevel,
                                  "translated")
              ELSE /\ text'[cand.node] = text[cand.node]
                   /\ fingerprintMap'[cand.node] = fingerprintMap[cand.node]
       /\ \A cand \in Range(planned.plan.toSend) :
            Mapped(merged.hashToTranslation, cand.textHash) = <<>> =>
              cand.node \notin MarkedBy]_vars

\* applyTranslations has written one of two candidates and returned 1: the other
\* one's hash maps to nothing
C13_Witness ==
  /\ outcome = "applied"
  /\ Len(planned.plan.toSend) = 2
  /\ cycleLog.returned = 1
  /\ Cardinality(cycleLog.written) = 1
  /\ \E cand \in Range(planned.plan.toSend) :
       /\ attached[cand.node]
       /\ HashIndex(merged.hashToTranslation, cand.textHash) = 0
       /\ text[cand.node] = cand.rawText

\* C14: applyCachedTranslations marks each live cache-hit entity as processed with
\* mode "translated" at the same level that was passed to createTranslationPlan,
\* for every level string, and returns the count of entities written.
C14_CachedMarkedAtPlanLevel ==
  [][CachedApplyStep =>
       /\ cycleLog'.returned = Cardinality(MarkedBy)
       /\ \A e \in Range(planned.plan.toApplyFromCache) :
            attached[e.candidate.node] =>
              /\ e.candidate.node \in MarkedBy
              /\ fingerprintMap'[e.candidate.node].userLevel = planned.userLevel
              /\ fingerprintMap'[e.candidate.node].mode = "translated"
              /\ isProcessed(fingerprintMap', text', e.candidate.node, planned.userLevel,
                             "translated")]_vars

\* the entities the planner is handed in this step that were never marked and
\* whose normalized text is T
NewWithText(T) ==
  {n \in NodesOf(planned'.textNodes) :
     ~fingerprintMap[n].has /\ normalizeText(text[n]) = T}

StillChinese(m) ==
  IF ~m.arrived \/ m.threw THEN {}
  ELSE {tr \in {m.hashToTranslation[i].translation : i \in 1..Len(m.hashToTranslation)} :
          isChineseText(tr)}

\* C16: self-mapping: when a returned translation still contains source-language
\* characters, then in any subsequent cycle at the same level a fragment whose
\* content equals that translated value resolves from the cache to itself (it is
\* in toApplyFromCache with translated equal to its own text) and is never placed
\* in uniqueTexts for dispatch.
C16_SelfMappingServedFromCache ==
  [][\A c \in Callers :
       (PlanStep(c) /\ merged.userLevel = planned'.userLevel) =>
         \A n \in NodesOf(planned'.textNodes) :
           text[n] \in StillChinese(merged) =>
             /\ \E e \in Range(planned'.plan.toApplyFromCache) :
                  e.candidate.node = n /\ e.translated = text[n]
             /\ normalizeText(text[n]) \notin Range(planned'.plan.uniqueTexts)]_vars

\* C17 as stated: isProcessed(e, l, m) is true iff a fingerprint is stored for e
\* and it equals hash(normalize(current text of e)):l:m; it is false if e was
\* never marked, if e was marked with a different level or mode, or if e's
\* normalized text changed since it was marked.
C17_ProcessedIffTextUnchanged ==
  \A n \in Nodes : \A l \in StoreLevels : \A m \in Modes :
    LET stored == fingerprintMap[n]
        processed == isProcessed(fingerprintMap, text, n, l, m)
    IN /\ processed <=>
            (/\ stored.has
             /\ stored.fingerprint =
                  generateNodeFingerprint(hashText(normalizeText(text[n])), l, m))
       /\ ~stored.has => ~processed
       /\ (stored.has /\ (stored.userLevel # l \/ stored.mode # m)) => ~processed
       /\ (stored.has /\ stored.normalizedText # normalizeText(text[n])) => ~processed

\* C17, amended: isProcessed(e, l, m) is true iff e was marked, the last mark was
\* made with level l and mode m, and the hash of e's normalized text is the hash
\* it had when it was marked; a changed text with the same hash counts as
\* unchanged.
C17_ProcessedIffHashUnchanged ==
  \A n \in Nodes : \A l \in StoreLevels : \A m \in Modes :
    LET stored == fingerprintMap[n]
        processed == isProcessed(fingerprintMap, text, n, l, m)
    IN /\ processed <=>
            (/\ stored.has
             /\ stored.fingerprint =
                  generateNodeFingerprint(hashText(normalizeText(text[n])), l, m))
       /\ processed <=>
            (/\ stored.has
             /\ stored.userLevel = l
             /\ stored.mode = m
             /\ hashText(stored.normalizedText) = hashText(normalizeText(text[n])))

\* one entity's text changed to a text with the same hash and it still counts as
\* processed, another's changed to a text with another hash and it does not
C17_Witness ==
  \E n \in Nodes : \E o \in Nodes :
    /\ fingerprintMap[n].has
    /\ fingerprintMap[n].normalizedText # normalizeText(text[n])
    /\ isProcessed(fingerprintMap, text, n, fingerprintMap[n].userLevel,
                   fingerprintMap[n].mode)
    /\ fingerprintMap[o].has
    /\ fingerprintMap[o].normalizedText # normalizeText(text[o])
    /\ ~isProcessed(fingerprintMap, text, o, fingerprintMap[o].userLevel,
                    fingerprintMap[o].mode)

\* C18: at most one fingerprint is associated with an entity at any time:
\* markAsProcessed(e, l2, m2) replaces whatever was stored for e, so a following
\* isProcessed(e, l1, m1) with (l1, m1) # (l2, m2) is false, and marking e never
\* changes the association of any other entity.
C18_MarkReplaces ==
  [][lastCall'.op = "mark" =>
       /\ \A o \in Nodes \ {lastCall'.node} : fingerprintMap'[o] = fingerprintMap[o]
       /\ isProcessed(fingerprintMap', text', lastCall'.node, lastCall'.userLevel,
                      lastCall'.mode)
       /\ \A l1 \in StoreLevels : \A m1 \in Modes :
            <<l1, m1>> # <<lastCall'.userLevel, lastCall'.mode>> =>
              ~isProcessed(fingerprintMap', text', lastCall'.node, l1, m1)]_vars

\* an entity marked at one level was marked again at another one, while another
\* entity holds an association
C18_Witness ==
  /\ lastCall.op = "mark"
  /\ lastCall.before.has
  /\ lastCall.before.userLevel # lastCall.userLevel
  /\ fingerprintMap[lastCall.node].userLevel = lastCall.userLevel
  /\ \E o \in Nodes \ {lastCall.node} : fingerprintMap[o].has

\* C19: for every configured capacity and every sequence of set, get and clear
\* operations, the number of entries in the cache never exceeds the configured
\* capacity.
C19_SizeWithinCapacity == Len(cache) <= maxSize

\* the cache without its item v
WithoutItem(c0, v) == [k \in 1..(Len(c0) - 1) |-> IF k < v THEN c0[k] ELSE c0[k + 1]]

\* the cache after item is stored under its key
WithItem(c0, item) ==
  IF CacheIndex(c0, item.key) # 0 THEN [c0 EXCEPT ![CacheIndex(c0, item.key)] = item]
  ELSE Append(c0, item)

\* C20: when set inserts into a cache that is at capacity and holds an entry,
\* exactly one entry is evicted and it is an entry whose
\* accessCount / (now - timestamp + 1) is minimal among the entries present, for
\* now some reading of the clock during the call; an entry with a strictly
\* larger score is never evicted in its place.
C20_EvictsOneMinimal ==
  [][(/\ lastCall'.op = "set"
      /\ Len(cache) >= maxSize
      /\ cache # <<>>) =>
       \E v \in 1..Len(cache) : \E t \in now..now' :
         /\ \A j \in 1..Len(cache) : ~ScoreLess(cache, j, v, t)
         /\ cache' = WithItem(WithoutItem(cache, v),
                              [key |-> lastCall'.key, value |-> lastCall'.value,
                               timestamp |-> now', accessCount |-> 1])]_vars

\* C21: every successful cache get increments that entry's accessCount by exactly
\* one and sets its timestamp to the current time, and returns the stored value;
\* a get that misses changes no entry and adds none.
C21_GetBumpsOnlyItsEntry ==
  [][lastCall'.op = "get" =>
       LET key == generateKey(lastCall'.text, lastCall'.userLevel)
           hits == {i \in 1..Len(cache) : cache[i].key = key}
       IN /\ Len(cache') = Len(cache)
          /\ lastCall'.found <=> hits # {}
          /\ \A i \in 1..Len(cache) :
               IF i \in hits
                 THEN /\ lastCall'.value = cache[i].value
                      /\ cache'[i].key = cache[i].key
                      /\ cache'[i].value = cache[i].value
                      /\ cache'[i].accessCount = cache[i].accessCount + 1
                      /\ cache'[i].timestamp = now
                 ELSE cache'[i] = cache[i]]_vars

\* a get hit one of two entries some time after it was set: it was read once, its
\* timestamp is the current time and the other entry is as it was set
C21_Witness ==
  /\ lastCall.op = "get"
  /\ lastCall.found
  /\ now > 0
  /\ Len(cache) = 2
  /\ \E i \in 1..2 : \E j \in 1..2 :
       /\ i # j
       /\ cache[i].key = generateKey(lastCall.text, lastCall.userLevel)
       /\ cache[i].value = lastCall.value
       /\ cache[i].accessCount = 2
       /\ cache[i].timestamp = now
       /\ cache[j].accessCount = 1
       /\ cache[j].timestamp < now

\* C22: the cache is keyed by the pair (content key, level): a value stored with
\* set(k2, l2, v) is returned by get(k1, l1) only if k1 = k2 and l1 = l2, so an
\* entry cached for one level or content is never served for another.  Every
\* value stored names the arguments it was stored with.
C22_ServedOnlyForItsPair ==
  [][(lastCall'.op = "get" /\ lastCall'.found) =>
       lastCall'.value = ValueOf(<<lastCall'.text, lastCall'.userLevel>>)]_vars

\* C23: normalization is idempotent: for every text s and every combination c of
\* the five toggles (trim, collapseWhitespace, removeZeroWidth, convertFullWidth,
\* removeLineBreaks), normalizeText(normalizeText(s, c), c) = normalizeText(s, c).
C23_NormalizeIdempotent ==
  lastCall.op = "normalizeTwice" => lastCall.result = lastCall.first

\* normalizeText applied twice, with trim on and the removal of zero-width
\* characters off, to a text that it changes and that holds a zero-width space
\* behind a leading space
C23_Witness ==
  /\ lastCall.op = "normalizeTwice"
  /\ lastCall.config.trim
  /\ ~lastCall.config.removeZeroWidth
  /\ Len(lastCall.text) = MaxTextLen
  /\ lastCall.text[1] = 32
  /\ lastCall.text[2] = 8203
  /\ lastCall.first # lastCall.text
  /\ lastCall.first # <<>>

\* C24: for every text, needsNormalization(text) is true exactly when
\* normalizeText(text) with the default configuration differs from text (also
\* for a text containing a single tab or other non-space whitespace character
\* between words).
C24_NeedsIffNormalizeChanges ==
  lastCall.op = "needsNormalization" =>
    (lastCall.result <=> normalizeText(lastCall.text) # lastCall.text)

\* C25: normalizeText and needsNormalization have no side effects and no hidden
\* state: for any sequence of calls, the result of each call depends only on its
\* own arguments and not on which texts were passed to earlier calls (for
\* instance by getNormalizationStats over a list): it is the result the same call
\* gives in a freshly loaded module.
C25_ResultDependsOnArgumentsOnly ==
  [][/\ lastCall'.op = "needsNormalization" =>
          lastCall'.result = needsNormalizationAt(lastCall'.text, 0).result
     /\ lastCall'.op = "normalizeText" =>
          lastCall'.result = normalizeText(lastCall'.text)]_vars

\* C26: hashText(text) is 32-bit FNV-1a over the text's character codes (start
\* 0x811c9dc5; per character XOR, then multiplication by 0x01000193 modulo 2^32)
\* rendered as exactly 8 lowercase hex digits with leading zeros; the empty
\* string hashes to "811c9dc5", and hashing the same text again gives the same
\* string.
C26_HashTextIsFnv1a ==
  lastCall.op \in {"hashText", "hashTwice"} =>
    /\ lastCall.result = Fnv1aHex(lastCall.text)
    /\ Len(lastCall.result) = 8
    /\ \A i \in 1..Len(lastCall.result) :
         \E d \in 1..16 : lastCall.result[i] = LowerHexChars[d]
    /\ lastCall.text = <<>> => lastCall.result = <<56, 49, 49, 99, 57, 100, 99, 53>>
    /\ lastCall.op = "hashTwice" => lastCall.result = lastCall.first

\* a text of several code units hashed twice whose hash starts with a padding '0'
C26_Witness ==
  /\ lastCall.op = "hashTwice"
  /\ Len(lastCall.text) > 1
  /\ lastCall.result[1] = 48
  /\ lastCall.result = lastCall.first

\* C27: shouldProcessElement(node) rejects the node if blacklist filtering is
\* enabled and the node matches a blacklist selector (also when it matches a
\* whitelist selector); otherwise, with whitelist filtering enabled, it accepts
\* exactly when the node matches a whitelist selector; otherwise it accepts.
C27_BlacklistThenWhitelist ==
  [][lastCall'.op = "shouldProcessElement" =>
       LET element == lastCall'.element
           black == /\ filterConfig'.useBlacklist
                    /\ MatchesAny(filterConfig'.blacklistSelectors, element, attributes')
           white == MatchesAny(filterConfig'.whitelistSelectors, element, attributes')
       IN /\ black => ~lastCall'.result
          /\ (~black /\ filterConfig'.useWhitelist) => (lastCall'.result <=> white)
          /\ (~black /\ ~filterConfig'.useWhitelist) => lastCall'.result]_vars

\* C28: shouldProcessElementRecursive(e) is true exactly when shouldProcessElement
\* accepts e and every ancestor of e below document.body (the body itself is not
\* checked); one rejected element in the chain makes the result false.
C28_RecursiveIffChainAccepted ==
  [][lastCall'.op = "shouldProcessElementRecursive" =>
       (lastCall'.result <=>
          \A n \in ChainBelowBody(lastCall'.element) :
            shouldProcessElement(FilterState, attributes, n).result)]_vars

\* a paragraph accepted by itself and rejected for its nav ancestor
C28_Witness ==
  /\ lastCall.op = "shouldProcessElementRecursive"
  /\ lastCall.element = "p1"
  /\ ~lastCall.result
  /\ "n1" \in blacklistCache
  /\ "p1" \notin blacklistCache

\* C29: every change of the configuration (updateConfig, a selector added or
\* removed) empties both memo sets, and so after any sequence of
\* shouldProcessElement calls, updateConfig calls and selector additions and
\* removals the result for a node is the decision computed from the
\* configuration current at the call.
C29_MemoInvalidatedOnConfigChange ==
  [][/\ filterConfig' # filterConfig => (blacklistCache' = {} /\ whitelistCache' = {})
     /\ lastCall'.op = "shouldProcessElement" =>
          lastCall'.result = Decision(filterConfig', attributes', lastCall'.element)]_vars

\* an element whose memoized rejection the last configuration change dropped is
\* accepted by the next call
C29_Witness ==
  /\ lastCall.op = "shouldProcessElement"
  /\ lastCall.element \in lastCall.dropped
  /\ lastCall.result

\* C30: a cycle dispatches only if plan.uniqueTexts is not empty; the texts
\* sent are plan.uniqueTexts in their order, sent with the level the cycle read
\* from the configuration, and the response is merged against the plan the
\* texts were taken from, at that level.
C30_DispatchSendsUniqueTexts ==
  [][/\ \A c \in Callers :
          (pc[c] # "awaitApi" /\ pc'[c] = "awaitApi") =>
            /\ Len(planned'.plan.uniqueTexts) > 0
            /\ plan'[c].request.texts = planned'.plan.uniqueTexts
            /\ plan'[c].request.userLevel = planned'.userLevel
            /\ planned'.userLevel = config.userLevel
     /\ (apiCallInProgress' /\ ~apiCallInProgress) =>
          \E c \in Callers : pc[c] # "awaitApi" /\ pc'[c] = "awaitApi"
     /\ (merged'.arrived /\ merged' # merged) =>
          /\ merged'.plan = planned.plan
          /\ merged'.userLevel = planned.userLevel]_vars

\* two different texts were sent in one call and the response was merged after
\* the configured level had changed
C30_Witness ==
  /\ merged.arrived
  /\ Len(merged.plan.uniqueTexts) = 2
  /\ merged.plan = planned.plan
  /\ merged.userLevel = planned.userLevel
  /\ merged.userLevel # config.userLevel

\* C31: a processVisibleText call made while a cycle is in flight starts no
\* cycle of its own.  While the dispatch is outstanding the call returns at
\* once; otherwise the caller waits for the cycle in flight and returns in the
\* step that ends it.  A waiting caller never collects, plans or dispatches, and
\* the step in which it calls writes no text, fingerprint or cache entry.
C31_LateCallStartsNoCycle ==
  [][\A c \in Callers :
       /\ (isProcessing /\ pc[c] = "idle" /\ pc'[c] # "idle") =>
            /\ ~apiCallInProgress
            /\ pc'[c] = "awaitPending"
            /\ awaiting'[c] = pendingRequest
            /\ pendingRequest' = pendingRequest
            /\ cycles' = cycles
            /\ UNCHANGED <<text, fingerprintMap, cache, plan, planned, apiCallInProgress>>
       /\ (pc[c] = "idle" /\ pc'[c] \in {"awaitConfig", "awaitApi"}) =>
            (~isProcessing /\ pendingRequest = NoCaller /\ ~apiCallInProgress)
       /\ pc[c] = "awaitPending" => pc'[c] \in {"awaitPending", "idle"}
       /\ (pc[c] = "awaitPending" /\ pc'[c] = "idle") =>
            /\ pendingRequest = awaiting[c]
            /\ pc[awaiting[c]] \in {"awaitConfig", "awaitApi"}
            /\ pc'[awaiting[c]] = "idle"
            /\ ~isProcessing'
            /\ plan[c] = NoCycle]_vars

\* a caller waits for a cycle that has not collected yet
C31_Witness ==
  \E c \in Callers : \E d \in Callers :
    /\ pc[c] = "awaitConfig"
    /\ pc[d] = "awaitPending"
    /\ awaiting[d] = c
    /\ pendingRequest = c
    /\ cycles = 1

\* the keys of the cache with their values
CacheContent(c0) == {<<c0[i].key, c0[i].value>> : i \in 1..Len(c0)}

\* the step of a cycle that plans and applies the cache hits of its plan
CycleCacheApplication ==
  \E c \in Callers :
    /\ pc[c] = "awaitConfig"
    /\ pc'[c] # "awaitConfig"
    /\ Len(planned'.plan.toApplyFromCache) > 0

\* the step of a cycle that merges a response, writes the cache and applies
CycleResultApplication ==
  \E c \in Callers :
    /\ pc[c] = "awaitApi"
    /\ merged'.arrived
    /\ ~merged'.threw
    /\ outcome' = "applied"

\* TextProcessor.stop called by the watchConfig callback: on every change of
\* the configuration that leaves it disabled
StopStep == config' # config /\ ~config'.enabled

\* createTranslationPlan leaves the keys and values of the cache as they are, and
\* a response that mergeApiResults refuses changes no text, fingerprint or cache
\* entry
PlanAndMergeChangeNothing ==
  /\ \A c \in Callers :
       (pc[c] = "awaitConfig" /\ pc'[c] # "awaitConfig" /\ outcome' # "empty") =>
         LET r == createTranslationPlan(planned'.textNodes, cache, planned'.userLevel,
                                        fingerprintMap, text, now)
         IN /\ PlanOnly(r) = planned'.plan
            /\ CacheContent(r.cache) = CacheContent(cache)
            /\ Len(r.toApplyFromCache) = 0 =>
                 (r.cache = cache /\ UNCHANGED <<text, fingerprintMap, cache>>)
  /\ (merged' # merged /\ merged'.threw) => UNCHANGED <<text, fingerprintMap, cache>>

\* C32 as stated: fingerprint associations and cache entries change only in the
\* apply steps of a cycle (application of cache hits, application of results
\* with the cache write-back); createTranslationPlan and mergeApiResults leave
\* every text, fingerprint association and cached key and value unchanged.
C32_OnlyApplyStepsChangeStores ==
  [][/\ (fingerprintMap' # fingerprintMap \/ CacheContent(cache') # CacheContent(cache))
          => (CycleCacheApplication \/ CycleResultApplication)
     /\ PlanAndMergeChangeNothing]_vars

\* C32, amended: fingerprint associations change only in the apply steps of a
\* cycle and in stop(), which removes all of them; cache keys and values change
\* only in the apply steps; createTranslationPlan and mergeApiResults leave every
\* text, fingerprint association and cached key and value unchanged.
C32_OnlyApplyStepsAndStopChangeStores ==
  [][/\ CacheContent(cache') # CacheContent(cache)
          => (CycleCacheApplication \/ CycleResultApplication)
     /\ fingerprintMap' # fingerprintMap
          => \/ CycleCacheApplication
             \/ CycleResultApplication
             \/ StopStep /\ fingerprintMap' = clearFingerprints(Nodes)
     /\ PlanAndMergeChangeNothing]_vars

\* stop() has removed the fingerprints a cycle recorded; the cache keeps what the
\* cycle wrote
C32_Witness ==
  /\ ~config.enabled
  /\ cycleLog.marked # {}
  /\ fingerprintMap = clearFingerprints(Nodes)
  /\ cache # <<>>

\* C33: whenever a cycle ends (nothing found, all cache hits, applied, dispatch
\* rejected, merge failed) isProcessing is false, pendingRequest is null and
\* apiCallInProgress is false, every caller has returned, and the next
\* processVisibleText call starts a cycle.
C33_CycleEndFreesProcessor ==
  [][\A c \in Callers :
       (pc[c] \in {"awaitConfig", "awaitApi"} /\ pc'[c] = "idle") =>
         /\ outcome' \in {"empty", "cached", "applied", "rejected", "mismatch"}
         /\ ~isProcessing'
         /\ pendingRequest' = NoCaller
         /\ ~apiCallInProgress'
         /\ \A d \in Callers : pc'[d] = "idle"
         /\ callDecision(apiCallInProgress', pendingRequest', isProcessing') = "started"]_vars

\* a second cycle has started after the first one ended on a response that
\* mergeApiResults refused
C33_Witness ==
  /\ cycles = 2
  /\ isProcessing
  /\ merged.arrived
  /\ merged.threw
  /\ outcome = "started"

\* C34: a translation is written onto an entity only if the entity's content is
\* still the content the translation was requested for: an attached entity whose
\* text the host changed while the dispatch was outstanding is not overwritten
\* with the translation of its old text.
C34_WrittenOnlyOnRequestedContent ==
  [][CycleResultApplication =>
       \A i \in 1..Len(merged'.plan.toSend) :
         LET candidate == merged'.plan.toSend[i]
         IN candidate.node \in applied'.nodes =>
              normalizeText(text[candidate.node]) = candidate.normalizedText]_vars

\* C35: after stop() has returned and until start() is called again, the
\* processor writes no entity text and records no fingerprint, also when a cycle
\* with an outstanding dispatch was in flight when stop() was called.
C35_StoppedProcessorWritesNothing ==
  [][~config.enabled =>
       /\ fingerprintMap' = fingerprintMap
       /\ text' # text => hostMoves' = hostMoves + 1]_vars

\* C36: set with a key that is already present only replaces that key's entry:
\* the keys of the cache are the same after the call, also at capacity.
C36_SetOfPresentKeyRemovesNoKey ==
  [][(lastCall'.op = "set" /\ cache' # cache /\ lastCall'.key \in KeysOf(cache))
       => KeysOf(cache') = KeysOf(cache)]_vars

\* C37: whether a button is rejected depends only on the filter's own
\* excludeButtons: a filter whose excludeButtons is false (from its constructor
\* or from updateConfig), with the blacklist on and the whitelist off, accepts
\* an element that matches only the button pattern, whatever other filters were
\* constructed before or after it.
C37_ButtonAcceptedWhenNotExcluded ==
  (/\ lastCall.op = "shouldProcessElement"
   /\ lastCall.element = ButtonElement
   /\ ~filterConfig.excludeButtons
   /\ ~filterConfig.useWhitelist)
    => lastCall.result

\* C38: in trailing-only mode the handler fires only after the calls have
\* stopped: between two scroll events of one burst (less than the delay apart)
\* 'scroll' has not been emitted, and once the timer of the last call has run,
\* 'scroll' has been emitted exactly once since that call.
C38_TrailingOnlyFiresAfterBurst ==
  [][/\ (/\ lastCall.op = "scroll"
         /\ lastCall'.op = "scroll"
         /\ lastCall'.at = now
         /\ lastCall.at < now
         /\ now - lastCall.at < ThrottleDelay)
          => lastCall.emitted = 0
     /\ (lastCall'.op = "scroll" /\ timeoutId' = Null) => lastCall'.emitted = 1]_vars

\* C39: in every interleaving of initializeExtension and cleanup at most one
\* TextProcessor has its observers started and not stopped, and isInitialized
\* is true only while textProcessor refers to that processor.
C39_AtMostOneProcessorRunning ==
  /\ Cardinality({p \in ProcessorIds : processors[p] = "observing"}) <= 1
  /\ isInitialized =>
       /\ textProcessor # Null
       /\ processors[textProcessor[1]] = "observing"

====
